---------------------------- MODULE Spec2Model ----------------------------
(***************************************************************************)
(* Model of the bot-casino spin settlement engine:                         *)
(*   casino_bot/slots.py     payout evaluators (pure functions)            *)
(*   casino_bot/database.py  balance ledger, jackpot pools, inventory,     *)
(*                           effects (each method one locked transaction)  *)
(*   casino_bot/bot.py       command handlers: coroutines that give up     *)
(*                           control at every await, so the steps of two   *)
(*                           handlers interleave between database calls    *)
(*                                                                         *)
(* Symbols are named in ASCII: the fruit reel is cherry .. clover, the     *)
(* pharaoh reel snake .. scorpion with the wild "moai", the pirate reel    *)
(* flag .. anchor with the scatter "map", the space reel planet .. star    *)
(* with the wild "galaxy".                                                 *)
(***************************************************************************)
EXTENDS Integers, Naturals, Sequences, FiniteSets, TLC

VARIABLES
    balance,    \* users.balance, per registered player
    lastDaily,  \* users.last_daily_timestamp, NoStamp when NULL
    jackpots,   \* jackpots.amount per machine key, Absent when there is no row
    items,      \* user_items.quantity per player and item, 0 when there is no row
    effects,    \* user_effects row per player and effect type, NoEffect when none
    spinLog,    \* number of rows appended by record_spin
    draws,      \* number of machine.spin() calls made on the shared RNG
    now,        \* int(time.time())
    slotLock,   \* CasinoBot._slot_lock: the task holding it, 0 when free
    dbLock,     \* CasinoDatabase._lock: the thread holding it, 0 when free
    pc,         \* position of every task (coroutine or database thread)
    loc,        \* local variables of every task
    reqLeft     \* number of requests the environment may still send

vars == <<balance, lastDaily, jackpots, items, effects, spinLog, draws, now,
          slotLock, dbLock, pc, loc, reqLeft>>

-----------------------------------------------------------------------------
(* Bounds of the model *)

NumTasks == 2
MaxRequests == 3

(* Program constants (casino_bot/config.py, casino_bot/slots.py) *)

DailyBonus == 200
DailyCooldown == 86400
CreditItemId == 20
CreditPrice == 5000
CreditLimit == 500
BoostItemId == 21
BoostPrice == 7500
BoostDuration == 900
FreeSpinCount == 10
MinContribution == 5
AutoBetMax == 1000
TripleFactor == 5
PairFactor == 2
PirateDefaultFactor == 8

NoStamp == -1
Absent == -1
NoEffect == [item_id |-> 0, expires_at |-> 0, value |-> 0]

Players == {"p1", "p2"}
UserIds == Players \cup {"p3"}      \* p3 never registered
Tasks == 1..NumTasks

Max(a, b) == IF a >= b THEN a ELSE b
Min(a, b) == IF a <= b THEN a ELSE b

-----------------------------------------------------------------------------
(* casino_bot/config.py: the machine catalogue *)

Machines == {"fruit", "pharaoh", "pirate", "space"}
JackpotMachines == {"pharaoh", "space"}
JackpotOrder == <<"pharaoh", "space">>

MachineType(m) ==
    CASE m = "fruit" -> "fruit"
      [] m = "pharaoh" -> "wild"
      [] m = "space" -> "wild"
      [] m = "pirate" -> "pirate"

Reel(m) ==
    CASE m = "fruit" -> <<"cherry", "lemon", "orange", "grape", "diamond", "bell", "clover">>
      [] m = "pharaoh" -> <<"snake", "beetle", "eye", "urn", "sun", "scorpion", "moai">>
      [] m = "pirate" -> <<"flag", "parrot", "bomb", "diamond", "anchor", "map">>
      [] m = "space" -> <<"planet", "rocket", "alien", "comet", "sparkle", "star", "galaxy">>

ReelSet(m) == {Reel(m)[i] : i \in 1..Len(Reel(m))}

WildSymbol(m) == IF m = "space" THEN "galaxy" ELSE "moai"

ScatterSymbol == "map"

\* dict.get(key, 0) on a table given as a function
Get(table, key) == IF key \in DOMAIN table THEN table[key] ELSE 0

SpecialPayouts ==
    ( <<"diamond", "diamond", "diamond">> :> 50 ) @@
    ( <<"clover", "clover", "clover">> :> 20 ) @@
    ( <<"bell", "bell", "bell">> :> 10 )

TriplePayouts(m) ==
    IF m = "space"
    THEN [planet |-> 25, rocket |-> 18, alien |-> 14, comet |-> 10, sparkle |-> 8, star |-> 6]
    ELSE [snake |-> 20, beetle |-> 16, eye |-> 12, urn |-> 10, sun |-> 6, scorpion |-> 6]

DoublePayouts(m) ==
    IF m = "space"
    THEN [planet |-> 2, rocket |-> 2, alien |-> 2, comet |-> 2, sparkle |-> 1, star |-> 1]
    ELSE [snake |-> 2, beetle |-> 2, eye |-> 2, urn |-> 2, sun |-> 1, scorpion |-> 1]

JackpotMultiplier(m) == IF m = "space" THEN 75 ELSE 60

\* jackpot_percent, in thousandths: 0.01 and 0.015
JackpotPermille(m) == IF m = "space" THEN 15 ELSE 10

PirateTriple == [flag |-> 30, parrot |-> 20, bomb |-> 15, diamond |-> 10, anchor |-> 6]

-----------------------------------------------------------------------------
(* casino_bot/slots.py: evaluate, as pure functions of (symbols, bet, pool) *)

Outcome(w, j, f) == [winnings |-> w, jackpot_win |-> j, free_spins |-> f]

Count(symbols, s) == Cardinality({i \in 1..Len(symbols) : symbols[i] = s})

Distinct(symbols) == Cardinality({symbols[i] : i \in 1..Len(symbols)})

\* a fruit machine that looks for three equal symbols before its table
FruitEvaluateTableLast(symbols, bet) ==
    IF symbols[1] = symbols[2] /\ symbols[2] = symbols[3]
    THEN Outcome(bet * TripleFactor, 0, 0)
    ELSE IF Distinct(symbols) = 2 THEN Outcome(bet * PairFactor, 0, 0)
    ELSE Outcome(0, 0, 0)

FruitEvaluate(symbols, bet) ==
    LET payout == Get(SpecialPayouts, symbols) IN
    IF payout # 0 THEN Outcome(bet * payout, 0, 0)
    ELSE IF symbols[1] = symbols[2] /\ symbols[2] = symbols[3]
         THEN Outcome(bet * TripleFactor, 0, 0)
    ELSE IF Distinct(symbols) = 2 THEN Outcome(bet * PairFactor, 0, 0)
    ELSE Outcome(0, 0, 0)

ScoreSymbol(m, s) == Get(TriplePayouts(m), s) * 10 + Get(DoublePayouts(m), s)

\* first symbol of the list with the greatest score (a later one must be strictly better)
RECURSIVE ChooseBestFrom(_, _, _)
ChooseBestFrom(m, best, rest) ==
    IF rest = <<>> THEN best
    ELSE IF ScoreSymbol(m, Head(rest)) > ScoreSymbol(m, best)
         THEN ChooseBestFrom(m, Head(rest), Tail(rest))
         ELSE ChooseBestFrom(m, best, Tail(rest))

\* a choice that takes the first symbol whatever its score
ChooseFirstSymbol(m, symbols) == Head(symbols)

ChooseBestSymbol(m, symbols) == ChooseBestFrom(m, Head(symbols), Tail(symbols))

NonWild(m, symbols) == SelectSeq(symbols, LAMBDA s : s # WildSymbol(m))

\* the part of evaluate after the wild branch: three of a kind, then an exact pair
WildNoWildPart(m, symbols, bet) ==
    LET triple == IF Distinct(symbols) = 1 /\ symbols[1] # WildSymbol(m)
                  THEN Get(TriplePayouts(m), symbols[1]) ELSE 0
        pairs == {s \in {symbols[i] : i \in 1..3} :
                     /\ s # WildSymbol(m)
                     /\ Count(symbols, s) = 2
                     /\ Get(DoublePayouts(m), s) # 0}
    IN  IF triple # 0 THEN Outcome(bet * triple, 0, 0)
        ELSE IF pairs # {}
             THEN Outcome(bet * Get(DoublePayouts(m), CHOOSE s \in pairs : TRUE), 0, 0)
        ELSE Outcome(0, 0, 0)

\* three wilds that pay the base prize without the pool
WildEvaluateBaseOnly(m, symbols, bet, jackpot_balance) ==
    IF Count(symbols, WildSymbol(m)) = 3
    THEN Outcome(bet * JackpotMultiplier(m), jackpot_balance, 0)
    ELSE WildNoWildPart(m, symbols, bet)

WildEvaluate(m, symbols, bet, jackpot_balance) ==
    LET wild_count == Count(symbols, WildSymbol(m))
        non_wild == NonWild(m, symbols)
    IN  IF wild_count = 3
        THEN Outcome(bet * JackpotMultiplier(m) + jackpot_balance, jackpot_balance, 0)
        ELSE IF wild_count > 0
        THEN LET best == ChooseBestSymbol(m, non_wild)
                 matches == Count(non_wild, best) + wild_count
                 multiplier == IF matches >= 3 THEN Get(TriplePayouts(m), best)
                               ELSE IF matches = 2 THEN Get(DoublePayouts(m), best)
                               ELSE 0
             IN  IF multiplier # 0 THEN Outcome(bet * multiplier, 0, 0)
                 ELSE WildNoWildPart(m, symbols, bet)
        ELSE WildNoWildPart(m, symbols, bet)

\* a pirate machine whose three maps award nothing
PirateEvaluateNoBonus(symbols, bet) ==
    IF symbols[1] = symbols[2] /\ symbols[2] = symbols[3] /\ symbols[1] # ScatterSymbol
    THEN Outcome(bet * (IF symbols[1] \in DOMAIN PirateTriple
                        THEN PirateTriple[symbols[1]]
                        ELSE PirateDefaultFactor), 0, 0)
    ELSE Outcome(0, 0, 0)

PirateEvaluate(symbols, bet) ==
    IF Count(symbols, ScatterSymbol) = 3 THEN Outcome(0, 0, FreeSpinCount)
    ELSE IF symbols[1] = symbols[2] /\ symbols[2] = symbols[3]
         THEN Outcome(bet * (IF symbols[1] \in DOMAIN PirateTriple
                             THEN PirateTriple[symbols[1]]
                             ELSE PirateDefaultFactor), 0, 0)
    ELSE IF /\ Distinct(symbols) = 2
            /\ \E s \in {symbols[i] : i \in 1..3} :
                  s # ScatterSymbol /\ Count(symbols, s) = 2
         THEN Outcome(bet * PairFactor, 0, 0)
    ELSE Outcome(0, 0, 0)

Evaluate(m, symbols, bet, jackpot_balance) ==
    CASE MachineType(m) = "fruit" -> FruitEvaluate(symbols, bet)
      [] MachineType(m) = "wild" -> WildEvaluate(m, symbols, bet, jackpot_balance)
      [] MachineType(m) = "pirate" -> PirateEvaluate(symbols, bet)

\* machines that all feed a pool
SupportsJackpotAll(m) == TRUE

SupportsJackpot(m) == MachineType(m) = "wild"

\* int(bet * jackpot_percent): for 0.01 and 0.015 the float product truncates to
\* the exact quotient for every bet up to 300000; a result of 0 becomes 5
JackpotContribution(m, bet) ==
    IF ~SupportsJackpot(m) THEN 0
    ELSE LET contribution == (bet * JackpotPermille(m)) \div 1000
         IN  IF contribution <= 0 /\ bet > 0 THEN MinContribution ELSE contribution

-----------------------------------------------------------------------------
(* casino_bot/database.py: what one locked transaction computes *)

\* a floor that forgets the allow_overdraft flag
MinBalanceIgnoringFlag(allow_overdraft, overdraft_limit) == -overdraft_limit

MinBalance(allow_overdraft, overdraft_limit) ==
    IF allow_overdraft THEN -overdraft_limit ELSE 0

\* adjust_balance raises ValueError("Insufficient funds")
\* an overdraft that is not held to its limit
AdjustFailsUnlimited(current, delta, allow_overdraft, overdraft_limit) ==
    ~allow_overdraft /\ current + delta < 0

\* an overdraft limit counted from the debt the player already has
AdjustFailsBelowDebt(current, delta, allow_overdraft, overdraft_limit) ==
    current + delta < Min(current, 0) + MinBalance(allow_overdraft, overdraft_limit)

AdjustFails(current, delta, allow_overdraft, overdraft_limit) ==
    current + delta < MinBalance(allow_overdraft, overdraft_limit)

\* an UPDATE issued before the test and never rolled back
FailedAdjustWritten(current, delta) == current + delta

\* the balance a failed adjust_balance leaves: it raises before its UPDATE, and
\* _connect rolls the transaction back
FailedAdjust(current, delta) == current

\* a transfer that lets the sender draw on the credit limit
TransferFailsBelowLimit(sender_balance, amount) == sender_balance + CreditLimit < amount

TransferFails(sender_balance, amount) == sender_balance < amount

JackpotSeed(m) ==
    CASE m = "pharaoh" -> 5000
      [] m = "space" -> 8000
      [] OTHER -> 0

\* an add_to_jackpot that creates the row at the amount
AddToJackpotUnseeded(current, amount, seed) ==
    IF current = Absent THEN amount ELSE current + amount

\* add_to_jackpot: the new amount of the row (amount <= 0 only peeks)
AddToJackpot(current, amount, seed) ==
    IF amount <= 0 THEN (IF current = Absent THEN seed ELSE current)
    ELSE IF current = Absent THEN Max(amount, seed)
    ELSE current + amount

\* reset_jackpot: REPLACE INTO jackpots ... seed
ResetJackpotAmount(current, seed) == seed

\* an add_item_to_inventory that counts every call
AddItemAlways(quantity, stackable) == quantity + 1

\* add_item_to_inventory: the new quantity
AddItem(quantity, stackable) ==
    IF quantity = 0 THEN 1
    ELSE IF stackable THEN quantity + 1
    ELSE quantity

\* a consume_item that leaves the row as it was
ConsumeItemKept(quantity) == quantity

\* consume_item: the new quantity when it returns True
ConsumeItem(quantity) == quantity - 1

\* record_spin (not in database.py): one row appended to the spin log
RecordSpin(log) == log + 1

-----------------------------------------------------------------------------
(* casino_bot/config.py shop items; casino_bot/bot.py helpers *)

ItemIds == {CreditItemId, BoostItemId}

\* a shop configured with a subscription to /stats besides the default items
AccessItemId == 30
AccessDuration == 1800

ItemType(item) ==
    IF item = CreditItemId THEN "credit_line"
    ELSE IF item = BoostItemId THEN "win_boost"
    ELSE "analytics_subscription"

ItemPrice(item) == IF item = CreditItemId THEN CreditPrice ELSE BoostPrice

Stackable(item) == item = BoostItemId

EffectTypes == {"credit_line", "win_boost"}

\* value column of a win boost: the multiplier 1.2, in hundredths
BoostMultiplierPct == 120

\* _resolve_bet: 0 stands for None (no bet); bet_arg None means no argument
ResolveBet(bal, bet_arg) ==
    IF bet_arg # 0 THEN (IF bet_arg > 0 THEN bet_arg ELSE 0)
    ELSE LET auto_bet == IF bal >= 0 THEN (bal * 5) \div 100
                         ELSE -(((-bal) * 5) \div 100)
         IN  Max(1, Min(AutoBetMax, IF auto_bet > 0 THEN auto_bet ELSE 1))

\* a credit line that is never seen
CreditNeverActive(effect) == FALSE

\* _get_credit_line_state: limit = max(0, int(value)); FALSE when no effect row
CreditActive(effect) == effect # NoEffect

CreditLimitOf(effect) == IF effect = NoEffect THEN 0 ELSE Max(0, effect.value)

\* slots, lines 659-673: "" when the balance permits a bet
BalanceGate(bal, credit_state, credit_limit) ==
    IF bal <= 0
    THEN IF credit_state /\ bal + credit_limit > 0 THEN ""
         ELSE IF credit_state /\ bal < 0 THEN "NegativeBalance"
         ELSE "NoChips"
    ELSE ""

\* a credit line that is consumed only once the whole limit is drawn
CreditUsedWhole(credit_state, balance_after_bet) ==
    credit_state /\ balance_after_bet <= -CreditLimit

\* slots, line 705
CreditUsed(credit_state, balance_after_bet) == credit_state /\ balance_after_bet < 0

\* a read that takes every stored effect for a running one
ExpiredNever(expires_at, time) == FALSE

\* _get_active_win_boost, line 1012
Expired(expires_at, time) == expires_at <= time

\* _apply_win_boost: int(base * (multiplier - 1.0)), at least 1.  For the
\* multiplier 1.2 the float 1.2 - 1.0 is 0.19999999999999996, so the product
\* truncates to (base - 1) \div 5 (200 gives 39).
\* a bonus without the floor of 1
WinBoostBonusTruncated(base_winnings, multiplier_pct) ==
    IF base_winnings <= 0 \/ multiplier_pct <= 100 THEN 0
    ELSE ((base_winnings * (multiplier_pct - 100)) - 1) \div 100

\* a subscription that always runs from now
AccessExpiryFromNow(current, now_read, duration) == now_read + duration

\* use_item, lines 602-605: current is the expiry _get_analytics_access
\* returned, Absent for None
AccessExpiry(current, now_read, duration) ==
    LET base_expiry == IF current = Absent THEN now_read ELSE current
    IN  (IF base_expiry < now_read THEN now_read ELSE base_expiry) + duration

WinBoostBonus(base_winnings, multiplier_pct) ==
    IF base_winnings <= 0 \/ multiplier_pct <= 100 THEN 0
    ELSE LET bonus == ((base_winnings * (multiplier_pct - 100)) - 1) \div 100
         IN  IF bonus <= 0 THEN 1 ELSE bonus

-----------------------------------------------------------------------------
(* Inputs of the handlers *)

\* the /slots requests sent: <<player, machine, bet argument>>, where the bet
\* argument 0 is "no argument" (5% of the balance) and a negative one is a bet
\* that is not a positive number.  The first player plays
\* a machine of every family; the second and the unregistered third play beside.
SlotRequests ==
    { <<"p1", "fruit", 100>>, <<"p1", "fruit", 400>>, <<"p1", "fruit", 0>>,
      <<"p1", "pharaoh", 100>>, <<"p1", "pharaoh", -5>>, <<"p1", "pirate", 100>>,
      <<"p2", "fruit", 100>>, <<"p3", "fruit", 100>> }

\* the /buy, /use and /daily requests sent
Shoppers == {"p1"}

\* the /give requests sent: <<sender, recipient, amount>>
GiveRequests ==
    { <<"p1", "p2", 300>>, <<"p2", "p1", 300>>, <<"p1", "p3", 300>>, <<"p2", "p2", 300>> }

\* the triplets the RNG is let to draw: one for every branch of evaluate
DrawSet(m) ==
    CASE m = "fruit" -> { <<"diamond", "diamond", "diamond">>,
                          <<"cherry", "cherry", "lemon">>,
                          <<"cherry", "lemon", "orange">> }
      [] m = "pharaoh" -> { <<"moai", "moai", "moai">>,
                            <<"sun", "sun", "urn">>,
                            <<"snake", "beetle", "eye">> }
      [] m = "pirate" -> { <<"map", "map", "map">>,
                           <<"flag", "flag", "parrot">>,
                           <<"flag", "parrot", "bomb">> }
      [] m = "space" -> { <<"galaxy", "galaxy", "galaxy">>,
                          <<"planet", "rocket", "alien">> }

\* the clock starts at InitTime and moves in steps of TickStep
InitTime == 1000
TickStep == 900

-----------------------------------------------------------------------------
(* Tasks: one coroutine per request *)

Fresh ==
    [op |-> "none", user |-> "none", machine |-> "none", arg |-> 0,
     ubal |-> 0, credit |-> FALSE, limit |-> 0, bet |-> 0, bab |-> 0,
     jb |-> 0, pool0 |-> 0, syms |-> <<>>, win |-> 0, jwin |-> 0, fs |-> 0,
     bonus |-> 0, free |-> FALSE, i |-> 0, item |-> 0, other |-> "none",
     amount |-> 0, stamp |-> 0, cur |-> 0, new_balance |-> 0,
     new_other |-> 0, written |-> 0, transport |-> "up", msg |-> FALSE,
     result |-> ""]

Idle(t) == pc[t] = "idle"

\* a new request runs in the lowest-numbered task that is free, and costs the
\* environment one of its events
Arrive(t) ==
    /\ Idle(t)
    /\ \A t2 \in Tasks : t2 < t => ~Idle(t2)
    /\ reqLeft > 0
    /\ reqLeft' = reqLeft - 1

\* a lock that is given back by a return and kept by an exception
FinishLeakOnError(t, result) ==
    /\ pc' = [pc EXCEPT ![t] = "idle"]
    /\ loc' = [loc EXCEPT ![t] = [Fresh EXCEPT !.result = result]]
    /\ slotLock' = IF slotLock = t /\ result \notin {"CreditFailed", "BonusFailed"}
                   THEN 0 ELSE slotLock

\* the request ends: the coroutine returns (or dies with an exception), and
\* "async with self._slot_lock" gives the lock back on either way out
Finish(t, result) ==
    /\ pc' = [pc EXCEPT ![t] = "idle"]
    /\ loc' = [loc EXCEPT ![t] = [Fresh EXCEPT !.result = result]]
    /\ slotLock' = IF slotLock = t THEN 0 ELSE slotLock

Goto(t, label, locals) ==
    /\ pc' = [pc EXCEPT ![t] = label]
    /\ loc' = [loc EXCEPT ![t] = locals]
    /\ UNCHANGED slotLock

dbVars == <<balance, lastDaily, jackpots, items, effects, spinLog>>

-----------------------------------------------------------------------------
(* bot.py slots: lines 625-790 *)

StartSlots(t, u, m, a) ==
    /\ Arrive(t)
    /\ pc' = [pc EXCEPT ![t] = "s_lock"]
    /\ loc' = [loc EXCEPT ![t] = [Fresh EXCEPT !.op = "slots", !.user = u,
                                               !.machine = m, !.arg = a,
                                               !.pool0 = IF m \in JackpotMachines
                                                         THEN jackpots[m] ELSE 0]]
    /\ UNCHANGED <<dbVars, draws, now, slotLock, dbLock>>

\* the same request while Telegram fails some or all of the replies and edits
StartSlotsFlaky(t, u, m, a) ==
    /\ Arrive(t)
    /\ pc' = [pc EXCEPT ![t] = "s_lock"]
    /\ loc' = [loc EXCEPT ![t] = [Fresh EXCEPT !.op = "slots", !.user = u,
                                               !.machine = m, !.arg = a,
                                               !.transport = "flaky",
                                               !.pool0 = IF m \in JackpotMachines
                                                         THEN jackpots[m] ELSE 0]]
    /\ UNCHANGED <<dbVars, draws, now, slotLock, dbLock>>

\* what _safe_reply and _safe_edit can return: a message (TRUE) or None / False
Delivered(transport) == IF transport = "up" THEN {TRUE} ELSE BOOLEAN

\* a handler that spins only when its announcement was delivered
SpinNeedsMessage(delivered) == delivered

\* slots, lines 719-731: with spin_message None the frames are skipped and
\* machine.spin is called all the same
SpinProceeds(delivered) == TRUE

\* a handler that does not wait for the lock
NoSlotLock(t) == TRUE

\* async with self._slot_lock
LockFree(t) == slotLock = 0

AcquireSlotLock(t) ==
    /\ pc[t] = "s_lock"
    /\ LockFree(t)
    /\ slotLock' = t
    /\ pc' = [pc EXCEPT ![t] = "s_user"]
    /\ UNCHANGED <<dbVars, draws, now, dbLock, loc, reqLeft>>

\* user = get_user(...)
SlotsGetUser(t) ==
    /\ pc[t] = "s_user"
    /\ IF loc[t].user \in Players
       THEN Goto(t, "s_credit", [loc[t] EXCEPT !.ubal = balance[loc[t].user]])
       ELSE Finish(t, "UserNotFound")
    /\ UNCHANGED <<dbVars, draws, now, dbLock, reqLeft>>

\* credit_state = _get_credit_line_state(...), the balance gate and _resolve_bet
SlotsGetCredit(t) ==
    /\ pc[t] = "s_credit"
    /\ LET effect == effects[loc[t].user]["credit_line"]
           credit_state == CreditActive(effect)
           credit_limit == IF credit_state THEN CreditLimitOf(effect) ELSE 0
           gate == BalanceGate(loc[t].ubal, credit_state, credit_limit)
           bet == ResolveBet(loc[t].ubal, loc[t].arg)
       IN  IF gate # "" THEN Finish(t, gate)
           ELSE IF bet = 0 THEN Finish(t, "InvalidBet")
           ELSE Goto(t, "s_deduct", [loc[t] EXCEPT !.credit = credit_state,
                                                   !.limit = credit_limit,
                                                   !.bet = bet])
    /\ UNCHANGED <<dbVars, draws, now, dbLock, reqLeft>>

AfterClear(m) == IF SupportsJackpot(m) THEN "s_contrib" ELSE "s_spin"

\* balance_after_bet = adjust_balance(id, -bet, allow_overdraft, overdraft_limit)
SlotsDeduct(t) ==
    /\ pc[t] = "s_deduct"
    /\ LET u == loc[t].user
           bab == balance[u] - loc[t].bet
       IN  IF AdjustFails(balance[u], -loc[t].bet, loc[t].credit, loc[t].limit)
           THEN /\ Finish(t, "BetRefused")
                /\ balance' = [balance EXCEPT ![u] = FailedAdjust(balance[u], -loc[t].bet)]
           ELSE /\ balance' = [balance EXCEPT ![u] = bab]
                /\ Goto(t, IF CreditUsed(loc[t].credit, bab)
                           THEN "s_clear" ELSE AfterClear(loc[t].machine),
                        [loc[t] EXCEPT !.bab = bab])
    /\ UNCHANGED <<lastDaily, jackpots, items, effects, spinLog, draws, now,
                   dbLock, reqLeft>>

\* clear_effect(id, CREDIT_LINE_EFFECT)
SlotsClearCredit(t) ==
    /\ pc[t] = "s_clear"
    /\ effects' = [effects EXCEPT ![loc[t].user]["credit_line"] = NoEffect]
    /\ Goto(t, AfterClear(loc[t].machine), [loc[t] EXCEPT !.credit = FALSE])
    /\ UNCHANGED <<balance, lastDaily, jackpots, items, spinLog, draws, now,
                   dbLock, reqLeft>>

\* jackpot_balance = add_to_jackpot(machine.key, machine.jackpot_contribution(bet))
SlotsContribute(t) ==
    /\ pc[t] = "s_contrib"
    /\ LET m == loc[t].machine
           total == AddToJackpot(jackpots[m], JackpotContribution(m, loc[t].bet),
                                 JackpotSeed(m))
       IN  /\ jackpots' = [jackpots EXCEPT ![m] = total]
           /\ Goto(t, "s_spin", [loc[t] EXCEPT !.jb = total])
    /\ UNCHANGED <<balance, lastDaily, items, effects, spinLog, draws, now,
                   dbLock, reqLeft>>

\* a cascade that grows by what its own spins award
FreeSpinsRetriggered(free, count, awarded) == IF free THEN count + awarded ELSE awarded

\* the length of the cascade: outcome.free_spins of the paid spin; inside
\* _run_free_spins the range(1, count + 1) is fixed and outcome.free_spins of
\* a free spin is not read
FreeSpinsCount(free, count, awarded) == IF free THEN count ELSE awarded

\* spin_message = _safe_reply(...) and its three frames (a free spin edits
\* base_message, which it does not replace), then
\* outcome = machine.spin(bet, rng, jackpot_balance); a free spin is
\* machine.spin(0, rng, jackpot_balance=0)
SlotsSpin(t) ==
    /\ pc[t] = "s_spin"
    /\ \E symbols \in DrawSet(loc[t].machine), delivered \in Delivered(loc[t].transport) :
          LET o == IF loc[t].free
                   THEN Evaluate(loc[t].machine, symbols, 0, 0)
                   ELSE Evaluate(loc[t].machine, symbols, loc[t].bet, loc[t].jb)
              spin_message == IF loc[t].free THEN loc[t].msg ELSE delivered
          IN  IF SpinProceeds(spin_message)
              THEN Goto(t, IF o.winnings # 0 THEN "s_pay" ELSE "s_record",
                        [loc[t] EXCEPT !.syms = symbols, !.win = o.winnings,
                                       !.jwin = o.jackpot_win,
                                       !.fs = FreeSpinsCount(loc[t].free, loc[t].fs,
                                                             o.free_spins),
                                       !.bonus = 0, !.msg = spin_message])
              ELSE Finish(t, "NoTransport")
    /\ draws' = draws + 1
    /\ UNCHANGED <<dbVars, now, dbLock, reqLeft>>

\* new_balance = adjust_balance(id, outcome.winnings): a ValueError is not
\* caught, it ends the handler
SlotsPay(t) ==
    /\ pc[t] = "s_pay"
    /\ LET u == loc[t].user IN
       IF AdjustFails(balance[u], loc[t].win, FALSE, 0)
       THEN /\ Finish(t, "CreditFailed")
            /\ balance' = [balance EXCEPT ![u] = FailedAdjust(balance[u], loc[t].win)]
       ELSE /\ balance' = [balance EXCEPT ![u] = balance[u] + loc[t].win]
            /\ Goto(t, "s_boost", loc[t])
    /\ UNCHANGED <<lastDaily, jackpots, items, effects, spinLog, draws, now,
                   dbLock, reqLeft>>

\* _apply_win_boost -> _get_active_win_boost: get_effect(id, WIN_BOOST_EFFECT)
SlotsReadBoost(t) ==
    /\ pc[t] = "s_boost"
    /\ LET effect == effects[loc[t].user]["win_boost"]
           bonus == WinBoostBonus(loc[t].win, Max(100, effect.value))
       IN  IF effect = NoEffect THEN Goto(t, "s_record", loc[t])
           ELSE IF Expired(effect.expires_at, now) THEN Goto(t, "s_unboost", loc[t])
           ELSE IF bonus = 0 THEN Goto(t, "s_record", loc[t])
           ELSE Goto(t, "s_bonus", [loc[t] EXCEPT !.bonus = bonus])
    /\ UNCHANGED <<dbVars, draws, now, dbLock, reqLeft>>

\* clear_effect(id, WIN_BOOST_EFFECT) for the expired effect that was read
SlotsClearBoost(t) ==
    /\ pc[t] = "s_unboost"
    /\ effects' = [effects EXCEPT ![loc[t].user]["win_boost"] = NoEffect]
    /\ Goto(t, "s_record", loc[t])
    /\ UNCHANGED <<balance, lastDaily, jackpots, items, spinLog, draws, now,
                   dbLock, reqLeft>>

\* new_balance = adjust_balance(id, bonus_amount)
SlotsPayBonus(t) ==
    /\ pc[t] = "s_bonus"
    /\ LET u == loc[t].user IN
       IF AdjustFails(balance[u], loc[t].bonus, FALSE, 0)
       THEN /\ Finish(t, "BonusFailed")
            /\ balance' = [balance EXCEPT ![u] = FailedAdjust(balance[u], loc[t].bonus)]
       ELSE /\ balance' = [balance EXCEPT ![u] = balance[u] + loc[t].bonus]
            /\ Goto(t, "s_record", loc[t])
    /\ UNCHANGED <<lastDaily, jackpots, items, effects, spinLog, draws, now,
                   dbLock, reqLeft>>


\* what follows the jackpot display of a paid spin: the final reply, then
\* _run_free_spins when outcome.free_spins > 0
AfterJackpot(t) ==
    IF loc[t].fs > 0
    THEN \E edited_message \in Delivered(loc[t].transport) :
            Goto(t, "s_spin", [loc[t] EXCEPT !.free = TRUE, !.i = 1,
                                             !.msg = edited_message])
    ELSE Finish(t, "Done")

\* what follows a get_jackpot call: slots goes on, /jackpot takes the next machine
AfterPeek(t) ==
    IF loc[t].op = "slots" THEN AfterJackpot(t)
    ELSE IF loc[t].i < Len(JackpotOrder)
         THEN Goto(t, "peek1", [loc[t] EXCEPT !.i = loc[t].i + 1])
         ELSE Finish(t, "Done")

PeekMachine(t) == IF loc[t].op = "slots" THEN loc[t].machine ELSE JackpotOrder[loc[t].i]

\* record_spin(id, machine.key, bet, total_winnings, free); in the cascade the
\* loop of _run_free_spins goes on to spin i + 1 of count
SlotsRecord(t) ==
    /\ pc[t] = "s_record"
    /\ spinLog' = RecordSpin(spinLog)
    /\ IF loc[t].free
       THEN IF loc[t].i < loc[t].fs
            THEN Goto(t, "s_spin", [loc[t] EXCEPT !.i = loc[t].i + 1])
            ELSE Finish(t, "Done")
       ELSE IF SupportsJackpot(loc[t].machine)
            THEN Goto(t, IF loc[t].jwin > 0 THEN "s_reset" ELSE "peek1", loc[t])
            ELSE AfterJackpot(t)
    /\ UNCHANGED <<balance, lastDaily, jackpots, items, effects, draws, now,
                   dbLock, reqLeft>>

\* reset_jackpot(machine.key)
SlotsResetJackpot(t) ==
    /\ pc[t] = "s_reset"
    /\ jackpots' = [jackpots EXCEPT ![loc[t].machine] =
                       ResetJackpotAmount(jackpots[loc[t].machine],
                                          JackpotSeed(loc[t].machine))]
    /\ Goto(t, "peek1", loc[t])
    /\ UNCHANGED <<balance, lastDaily, items, effects, spinLog, draws, now,
                   dbLock, reqLeft>>

-----------------------------------------------------------------------------
(* database.py get_jackpot, lines 284-298: two transactions *)

\* first transaction: SELECT amount; a row that exists is returned
PeekRead(t) ==
    /\ pc[t] = "peek1"
    /\ IF jackpots[PeekMachine(t)] # Absent
       THEN AfterPeek(t)
       ELSE Goto(t, "peek2", loc[t])
    /\ UNCHANGED <<dbVars, draws, now, dbLock, reqLeft>>

\* the amount the second transaction writes
PeekWrite(current, seed) == seed

\* second transaction: INSERT OR REPLACE INTO jackpots ... seed
PeekCreate(t) ==
    /\ pc[t] = "peek2"
    /\ jackpots' = [jackpots EXCEPT ![PeekMachine(t)] =
                       PeekWrite(jackpots[PeekMachine(t)], JackpotSeed(PeekMachine(t)))]
    /\ AfterPeek(t)
    /\ UNCHANGED <<balance, lastDaily, items, effects, spinLog, draws, now,
                   dbLock, reqLeft>>

\* bot.py jackpot, lines 792-809
StartJackpot(t) ==
    /\ Arrive(t)
    /\ pc' = [pc EXCEPT ![t] = "peek1"]
    /\ loc' = [loc EXCEPT ![t] = [Fresh EXCEPT !.op = "jackpot", !.i = 1]]
    /\ UNCHANGED <<dbVars, draws, now, slotLock, dbLock>>

-----------------------------------------------------------------------------
(* bot.py buy, lines 441-486 *)

StartBuy(t, u, item) ==
    /\ Arrive(t)
    /\ pc' = [pc EXCEPT ![t] = "b_user"]
    /\ loc' = [loc EXCEPT ![t] = [Fresh EXCEPT !.op = "buy", !.user = u, !.item = item]]
    /\ UNCHANGED <<dbVars, draws, now, slotLock, dbLock>>

\* user = get_user(...)
BuyGetUser(t) ==
    /\ pc[t] = "b_user"
    /\ IF loc[t].user \notin Players THEN Finish(t, "UserNotFound")
       ELSE Goto(t, IF Stackable(loc[t].item) THEN "b_pay" ELSE "b_has", loc[t])
    /\ UNCHANGED <<dbVars, draws, now, dbLock, reqLeft>>

\* if not stackable and has_item(...)
BuyHasItem(t) ==
    /\ pc[t] = "b_has"
    /\ IF items[loc[t].user][loc[t].item] > 0 THEN Finish(t, "AlreadyOwned")
       ELSE Goto(t, "b_pay", loc[t])
    /\ UNCHANGED <<dbVars, draws, now, dbLock, reqLeft>>

\* new_balance = adjust_balance(id, -price)
BuyPay(t) ==
    /\ pc[t] = "b_pay"
    /\ LET u == loc[t].user
           price == ItemPrice(loc[t].item)
       IN  IF AdjustFails(balance[u], -price, FALSE, 0)
           THEN /\ Finish(t, "CannotAfford")
                /\ balance' = [balance EXCEPT ![u] = FailedAdjust(balance[u], -price)]
           ELSE /\ balance' = [balance EXCEPT ![u] = balance[u] - price]
                /\ Goto(t, "b_add", loc[t])
    /\ UNCHANGED <<lastDaily, jackpots, items, effects, spinLog, draws, now,
                   dbLock, reqLeft>>

\* add_item_to_inventory(id, item_id, stackable=stackable)
BuyAddItem(t) ==
    /\ pc[t] = "b_add"
    /\ items' = [items EXCEPT ![loc[t].user][loc[t].item] =
                    AddItem(items[loc[t].user][loc[t].item], Stackable(loc[t].item))]
    /\ Finish(t, "Done")
    /\ UNCHANGED <<balance, lastDaily, jackpots, effects, spinLog, draws, now,
                   dbLock, reqLeft>>

-----------------------------------------------------------------------------
(* bot.py use_item, lines 488-623 *)

StartUse(t, u, item) ==
    /\ Arrive(t)
    /\ pc' = [pc EXCEPT ![t] = "u_has"]
    /\ loc' = [loc EXCEPT ![t] = [Fresh EXCEPT !.op = "use", !.user = u, !.item = item]]
    /\ UNCHANGED <<dbVars, draws, now, slotLock, dbLock>>

\* if not has_item(...)
UseHasItem(t) ==
    /\ pc[t] = "u_has"
    /\ IF loc[t].user \notin Players \/ items[loc[t].user][loc[t].item] <= 0
       THEN Finish(t, "ItemNotOwned")
       ELSE Goto(t, IF ItemType(loc[t].item) = "credit_line" THEN "u_credit"
                    ELSE "u_consume", loc[t])
    /\ UNCHANGED <<dbVars, draws, now, dbLock, reqLeft>>

\* current_credit = _get_credit_line_state(...)
UseGetCredit(t) ==
    /\ pc[t] = "u_credit"
    /\ IF CreditActive(effects[loc[t].user]["credit_line"])
       THEN Finish(t, "AlreadyActive")
       ELSE Goto(t, "u_consume", loc[t])
    /\ UNCHANGED <<dbVars, draws, now, dbLock, reqLeft>>

\* consumed = consume_item(...); a win boost then reads the clock for expires_at
UseConsume(t) ==
    /\ pc[t] = "u_consume"
    /\ LET u == loc[t].user
           item == loc[t].item
       IN  IF items[u][item] <= 0
           THEN /\ Finish(t, "NothingToConsume")
                /\ UNCHANGED items
           ELSE /\ items' = [items EXCEPT ![u][item] = ConsumeItem(items[u][item])]
                /\ Goto(t, IF ItemType(item) = "analytics_subscription"
                           THEN "a_read" ELSE "u_set",
                        [loc[t] EXCEPT !.stamp =
                            IF ItemType(item) = "win_boost" THEN now + BoostDuration ELSE 0])
    /\ UNCHANGED <<balance, lastDaily, jackpots, effects, spinLog, draws, now,
                   dbLock, reqLeft>>

\* set_effect(id, effect, item_id, expires_at, value)
UseSetEffect(t) ==
    /\ pc[t] = "u_set"
    /\ LET item == loc[t].item IN
       effects' = [effects EXCEPT ![loc[t].user][ItemType(item)] =
                      [item_id |-> item, expires_at |-> loc[t].stamp,
                       value |-> IF ItemType(item) = "credit_line"
                                 THEN CreditLimit ELSE BoostMultiplierPct]]
    /\ Finish(t, "Done")
    /\ UNCHANGED <<balance, lastDaily, jackpots, items, spinLog, draws, now,
                   dbLock, reqLeft>>

-----------------------------------------------------------------------------
(* bot.py use_item, lines 591-613, and stats, lines 811-883: the subscription *)

\* _get_analytics_access: get_effect and the test of expires_at
ReadAccess(t, live, none) ==
    LET effect == effects[loc[t].user]["analytics_subscription"] IN
    IF effect = NoEffect THEN none
    ELSE IF Expired(effect.expires_at, now)
         THEN Goto(t, "a_reap", [loc[t] EXCEPT !.cur = Absent])
         ELSE Goto(t, live, [loc[t] EXCEPT !.cur = effect.expires_at])

\* current = _get_analytics_access(...)
UseReadAccess(t) ==
    /\ pc[t] = "a_read"
    /\ ReadAccess(t, "a_now", Goto(t, "a_now", [loc[t] EXCEPT !.cur = Absent]))
    /\ UNCHANGED <<dbVars, draws, now, dbLock, reqLeft>>

\* clear_effect(id, ANALYTICS_EFFECT) for the expired effect that was read
AccessReap(t) ==
    /\ pc[t] = "a_reap"
    /\ effects' = [effects EXCEPT ![loc[t].user]["analytics_subscription"] = NoEffect]
    /\ IF loc[t].op = "use" THEN Goto(t, "a_now", loc[t]) ELSE Finish(t, "NoAccess")
    /\ UNCHANGED <<balance, lastDaily, jackpots, items, spinLog, draws, now,
                   dbLock, reqLeft>>

\* now = int(time.time())
UseNow(t) ==
    /\ pc[t] = "a_now"
    /\ Goto(t, "a_set", [loc[t] EXCEPT !.stamp = now])
    /\ UNCHANGED <<dbVars, draws, now, dbLock, reqLeft>>

\* set_effect(id, ANALYTICS_EFFECT, item_id, expires_at=new_expiry, value=None)
UseSetAccess(t) ==
    /\ pc[t] = "a_set"
    /\ effects' = [effects EXCEPT ![loc[t].user]["analytics_subscription"] =
                      [item_id |-> loc[t].item,
                       expires_at |-> AccessExpiry(loc[t].cur, loc[t].stamp, AccessDuration),
                       value |-> 0]]
    /\ Finish(t, "Done")
    /\ UNCHANGED <<balance, lastDaily, jackpots, items, spinLog, draws, now,
                   dbLock, reqLeft>>

StartStats(t, u) ==
    /\ Arrive(t)
    /\ pc' = [pc EXCEPT ![t] = "st_read"]
    /\ loc' = [loc EXCEPT ![t] = [Fresh EXCEPT !.op = "stats", !.user = u]]
    /\ UNCHANGED <<dbVars, draws, now, slotLock, dbLock>>

\* analytics = _get_analytics_access(...); if not analytics: return
StatsReadAccess(t) ==
    /\ pc[t] = "st_read"
    /\ ReadAccess(t, "st_report", Finish(t, "NoAccess"))
    /\ UNCHANGED <<dbVars, draws, now, dbLock, reqLeft>>

\* the queries of the report: they only read
StatsReport(t) ==
    /\ pc[t] = "st_report"
    /\ Finish(t, "Done")
    /\ UNCHANGED <<dbVars, draws, now, dbLock, reqLeft>>

-----------------------------------------------------------------------------
(* bot.py daily, lines 149-177 *)

StartDaily(t, u) ==
    /\ Arrive(t)
    /\ pc' = [pc EXCEPT ![t] = "d_user"]
    /\ loc' = [loc EXCEPT ![t] = [Fresh EXCEPT !.op = "daily", !.user = u]]
    /\ UNCHANGED <<dbVars, draws, now, slotLock, dbLock>>

\* the cooldown test on the user record that get_user returned
CooldownActive(last, time) == last # NoStamp /\ time - last < DailyCooldown

\* user = get_user(...); now = int(time.time()); the cooldown test
DailyGetUser(t) ==
    /\ pc[t] = "d_user"
    /\ IF loc[t].user \notin Players THEN Finish(t, "UserNotFound")
       ELSE IF CooldownActive(lastDaily[loc[t].user], now) THEN Finish(t, "Cooldown")
       ELSE Goto(t, "d_pay", [loc[t] EXCEPT !.stamp = now])
    /\ UNCHANGED <<dbVars, draws, now, dbLock, reqLeft>>

\* new_balance = adjust_balance(id, daily_bonus): a ValueError is not caught
DailyPay(t) ==
    /\ pc[t] = "d_pay"
    /\ LET u == loc[t].user IN
       IF AdjustFails(balance[u], DailyBonus, FALSE, 0)
       THEN /\ Finish(t, "DailyFailed")
            /\ balance' = [balance EXCEPT ![u] = FailedAdjust(balance[u], DailyBonus)]
       ELSE /\ balance' = [balance EXCEPT ![u] = balance[u] + DailyBonus]
            /\ Goto(t, "d_stamp", loc[t])
    /\ UNCHANGED <<lastDaily, jackpots, items, effects, spinLog, draws, now,
                   dbLock, reqLeft>>

\* set_daily_timestamp(id, now)
DailyStamp(t) ==
    /\ pc[t] = "d_stamp"
    /\ lastDaily' = [lastDaily EXCEPT ![loc[t].user] = loc[t].stamp]
    /\ Finish(t, "Done")
    /\ UNCHANGED <<balance, jackpots, items, effects, spinLog, draws, now,
                   dbLock, reqLeft>>

-----------------------------------------------------------------------------
(* bot.py give, lines 199-259 *)

StartGive(t, u, r, amount) ==
    /\ Arrive(t)
    /\ amount > 0
    /\ pc' = [pc EXCEPT ![t] = "g_sender"]
    /\ loc' = [loc EXCEPT ![t] = [Fresh EXCEPT !.op = "give", !.user = u,
                                               !.other = r, !.amount = amount]]
    /\ UNCHANGED <<dbVars, draws, now, slotLock, dbLock>>

\* sender = get_user(...)
GiveGetSender(t) ==
    /\ pc[t] = "g_sender"
    /\ IF loc[t].user \notin Players THEN Finish(t, "UserNotFound")
       ELSE Goto(t, "g_recipient", loc[t])
    /\ UNCHANGED <<dbVars, draws, now, dbLock, reqLeft>>

\* recipient = get_user_by_username(...); no transfer to oneself
GiveGetRecipient(t) ==
    /\ pc[t] = "g_recipient"
    /\ IF loc[t].other \notin Players THEN Finish(t, "RecipientNotFound")
       ELSE IF loc[t].other = loc[t].user THEN Finish(t, "SelfTransfer")
       ELSE Goto(t, "g_transfer", loc[t])
    /\ UNCHANGED <<dbVars, draws, now, dbLock, reqLeft>>

\* a transfer that debits the sender and forgets the recipient
TransferWritesDebitOnly(sender_balance, recipient_balance, amount) ==
    <<sender_balance - amount, recipient_balance>>

\* transfer: the two balances one committed transaction writes
TransferWrites(sender_balance, recipient_balance, amount) ==
    <<sender_balance - amount, recipient_balance + amount>>

\* sender_balance, _ = transfer(sender, recipient, amount)
GiveTransfer(t) ==
    /\ pc[t] = "g_transfer"
    /\ LET s == loc[t].user
           r == loc[t].other
           w == TransferWrites(balance[s], balance[r], loc[t].amount)
       IN  IF TransferFails(balance[s], loc[t].amount)
           THEN /\ Finish(t, "TransferRefused")
                /\ UNCHANGED balance
           ELSE /\ balance' = [balance EXCEPT ![s] = w[1], ![r] = w[2]]
                /\ Finish(t, "Done")
    /\ UNCHANGED <<lastDaily, jackpots, items, effects, spinLog, draws, now,
                   dbLock, reqLeft>>

-----------------------------------------------------------------------------
(* time.time() *)

\* the passing of time is an event of the environment, like a request
Tick ==
    /\ reqLeft > 0
    /\ reqLeft' = reqLeft - 1
    /\ now' = now + TickStep
    /\ UNCHANGED <<dbVars, draws, slotLock, dbLock, pc, loc>>

-----------------------------------------------------------------------------
(* The bot: requests arrive at any time, their handlers interleave *)

StartingBalance == 1000

\* the credit line as use_item stores it
CreditEffect == [item_id |-> CreditItemId, expires_at |-> 0, value |-> CreditLimit]

\* what the database holds for the first player when the bot starts (the
\* database outlives the bot): an active credit line with a second one in the
\* inventory, a win boost in the inventory, or only chips
InitProfiles ==
    { [bal |-> 50, credit_items |-> 1, boost_items |-> 0, credit |-> CreditEffect],
      [bal |-> 50, credit_items |-> 0, boost_items |-> 1, credit |-> NoEffect],
      [bal |-> 5050, credit_items |-> 0, boost_items |-> 0, credit |-> NoEffect] }

NoEffects == [e \in EffectTypes |-> NoEffect]

Init ==
    /\ \E f \in InitProfiles :
          /\ balance = [p \in Players |-> IF p = "p1" THEN f.bal ELSE StartingBalance]
          /\ items = [p \in Players |->
                         IF p = "p1"
                         THEN (CreditItemId :> f.credit_items) @@ (BoostItemId :> f.boost_items)
                         ELSE [i \in ItemIds |-> 0]]
          /\ effects = [p \in Players |->
                           IF p = "p1" THEN [NoEffects EXCEPT !["credit_line"] = f.credit]
                           ELSE NoEffects]
    /\ lastDaily = [p \in Players |-> NoStamp]
    /\ jackpots = [m \in JackpotMachines |-> Absent]
    /\ spinLog = 0
    /\ draws = 0
    /\ now = InitTime
    /\ slotLock = 0
    /\ dbLock = 0
    /\ pc = [t \in Tasks |-> "idle"]
    /\ loc = [t \in Tasks |-> Fresh]
    /\ reqLeft = MaxRequests

Next ==
    \/ \E t \in Tasks, r \in SlotRequests : StartSlots(t, r[1], r[2], r[3])
    \/ \E t \in Tasks : AcquireSlotLock(t)
    \/ \E t \in Tasks : SlotsGetUser(t)
    \/ \E t \in Tasks : SlotsGetCredit(t)
    \/ \E t \in Tasks : SlotsDeduct(t)
    \/ \E t \in Tasks : SlotsClearCredit(t)
    \/ \E t \in Tasks : SlotsContribute(t)
    \/ \E t \in Tasks : SlotsSpin(t)
    \/ \E t \in Tasks : SlotsPay(t)
    \/ \E t \in Tasks : SlotsReadBoost(t)
    \/ \E t \in Tasks : SlotsClearBoost(t)
    \/ \E t \in Tasks : SlotsPayBonus(t)
    \/ \E t \in Tasks : SlotsRecord(t)
    \/ \E t \in Tasks : SlotsResetJackpot(t)
    \/ \E t \in Tasks : PeekRead(t)
    \/ \E t \in Tasks : PeekCreate(t)
    \/ \E t \in Tasks : StartJackpot(t)
    \/ \E t \in Tasks, u \in Shoppers, item \in ItemIds : StartBuy(t, u, item)
    \/ \E t \in Tasks : BuyGetUser(t)
    \/ \E t \in Tasks : BuyHasItem(t)
    \/ \E t \in Tasks : BuyPay(t)
    \/ \E t \in Tasks : BuyAddItem(t)
    \/ \E t \in Tasks, u \in Shoppers, item \in ItemIds : StartUse(t, u, item)
    \/ \E t \in Tasks : UseHasItem(t)
    \/ \E t \in Tasks : UseGetCredit(t)
    \/ \E t \in Tasks : UseConsume(t)
    \/ \E t \in Tasks : UseSetEffect(t)
    \/ \E t \in Tasks, u \in Shoppers : StartDaily(t, u)
    \/ \E t \in Tasks : DailyGetUser(t)
    \/ \E t \in Tasks : DailyPay(t)
    \/ \E t \in Tasks : DailyStamp(t)
    \/ \E t \in Tasks, r \in GiveRequests : StartGive(t, r[1], r[2], r[3])
    \/ \E t \in Tasks : GiveGetSender(t)
    \/ \E t \in Tasks : GiveGetRecipient(t)
    \/ \E t \in Tasks : GiveTransfer(t)
    \/ Tick

Spec == Init /\ [][Next]_vars


-----------------------------------------------------------------------------
(* database.py seen from inside: every call of adjust_balance or transfer   *)
(* runs in a worker thread (asyncio.to_thread), takes CasinoDatabase._lock  *)
(* in _connect, reads, writes to its own connection and commits on the way  *)
(* out.  This is what lets the handlers above treat a call as one step.     *)

DbInitBalance == 50

\* the calls made: <<delta, allow_overdraft, overdraft_limit>> on the first player
AdjustCalls ==
    {-100, -30, 70} \X { <<FALSE, 0>>, <<FALSE, CreditLimit>>, <<TRUE, CreditLimit>> }

\* <<sender, recipient, amount>>; give, the only caller, never passes the sender
\* as the recipient
TransferCalls ==
    { <<"p1", "p2", 30>>, <<"p1", "p2", 100>>, <<"p2", "p1", 100>>,
      <<"p1", "p3", 30>>, <<"p3", "p1", 30>>, <<"p1", "p2", 0>> }

DbStartAdjust(t, delta, allow_overdraft, overdraft_limit) ==
    /\ pc[t] = "db_idle"
    /\ \A t2 \in Tasks : t2 < t => pc[t2] # "db_idle"
    /\ pc' = [pc EXCEPT ![t] = "db_wait"]
    /\ loc' = [loc EXCEPT ![t] = [Fresh EXCEPT !.op = "adjust", !.user = "p1",
                                               !.amount = delta,
                                               !.credit = allow_overdraft,
                                               !.limit = overdraft_limit]]
    /\ UNCHANGED <<dbVars, draws, now, slotLock, dbLock, reqLeft>>

\* transfer raises on amount <= 0 before it connects
DbStartTransfer(t, s, r, amount) ==
    /\ pc[t] = "db_idle"
    /\ \A t2 \in Tasks : t2 < t => pc[t2] # "db_idle"
    /\ pc' = [pc EXCEPT ![t] = IF amount <= 0 THEN "db_done" ELSE "db_wait"]
    /\ loc' = [loc EXCEPT ![t] = [Fresh EXCEPT !.op = "transfer", !.user = s,
                                               !.other = r, !.amount = amount,
                                               !.result = IF amount <= 0 THEN "Refused"
                                                          ELSE ""]]
    /\ UNCHANGED <<dbVars, draws, now, slotLock, dbLock, reqLeft>>

\* a connection opened without taking the lock
DbNoLock(t) == TRUE

\* with self._lock
DbLockFree(t) == dbLock = 0

\* _connect: take the lock, open a connection
DbConnect(t) ==
    /\ pc[t] = "db_wait"
    /\ DbLockFree(t)
    /\ dbLock' = t
    /\ pc' = [pc EXCEPT ![t] = "db_select"]
    /\ UNCHANGED <<dbVars, draws, now, slotLock, loc, reqLeft>>

\* the SELECTs and the tests made on the rows read
DbSelect(t) ==
    /\ pc[t] = "db_select"
    /\ IF loc[t].op = "adjust"
       THEN LET current == balance[loc[t].user] IN
            Goto(t, IF AdjustFails(current, loc[t].amount, loc[t].credit, loc[t].limit)
                    THEN "db_raise" ELSE "db_update",
                 [loc[t] EXCEPT !.cur = current, !.new_balance = current + loc[t].amount])
       ELSE IF loc[t].user \notin Players \/ loc[t].other \notin Players
            THEN Goto(t, "db_raise", loc[t])
            ELSE LET w == TransferWrites(balance[loc[t].user], balance[loc[t].other],
                                         loc[t].amount)
                 IN  Goto(t, IF TransferFails(balance[loc[t].user], loc[t].amount)
                             THEN "db_raise" ELSE "db_update",
                          [loc[t] EXCEPT !.cur = balance[loc[t].user],
                                         !.ubal = balance[loc[t].other],
                                         !.new_balance = w[1], !.new_other = w[2]])
    /\ UNCHANGED <<dbVars, draws, now, dbLock, reqLeft>>

\* UPDATE users SET balance: written to the connection, not yet committed
DbUpdate(t) ==
    /\ pc[t] = "db_update"
    /\ Goto(t, IF loc[t].op = "transfer" /\ loc[t].written = 0
               THEN "db_update" ELSE "db_commit",
            [loc[t] EXCEPT !.written = loc[t].written + 1])
    /\ UNCHANGED <<dbVars, draws, now, dbLock, reqLeft>>

\* conn.commit(): the rows written become the stored rows; the lock is released
DbCommit(t) ==
    /\ pc[t] = "db_commit"
    /\ balance' = IF loc[t].op = "adjust"
                  THEN [balance EXCEPT ![loc[t].user] = loc[t].new_balance]
                  ELSE [balance EXCEPT ![loc[t].user] = loc[t].new_balance,
                                       ![loc[t].other] = loc[t].new_other]
    /\ dbLock' = IF dbLock = t THEN 0 ELSE dbLock
    /\ pc' = [pc EXCEPT ![t] = "db_done"]
    /\ loc' = [loc EXCEPT ![t].result = "Done"]
    /\ UNCHANGED <<lastDaily, jackpots, items, effects, spinLog, draws, now,
                   slotLock, reqLeft>>

\* raise ValueError: conn.rollback(); the lock is released
DbRaise(t) ==
    /\ pc[t] = "db_raise"
    /\ IF loc[t].user \in Players
       THEN balance' = [balance EXCEPT ![loc[t].user] =
                           FailedAdjust(balance[loc[t].user], loc[t].amount)]
       ELSE UNCHANGED balance
    /\ dbLock' = IF dbLock = t THEN 0 ELSE dbLock
    /\ pc' = [pc EXCEPT ![t] = "db_done"]
    /\ loc' = [loc EXCEPT ![t].result = "Refused"]
    /\ UNCHANGED <<lastDaily, jackpots, items, effects, spinLog, draws, now,
                   slotLock, reqLeft>>

InitDb ==
    /\ balance = [p \in Players |-> DbInitBalance]
    /\ lastDaily = [p \in Players |-> NoStamp]
    /\ jackpots = [m \in JackpotMachines |-> Absent]
    /\ items = [p \in Players |-> [i \in ItemIds |-> 0]]
    /\ effects = [p \in Players |->
                     IF p = "p1" THEN [NoEffects EXCEPT !["credit_line"] = CreditEffect]
                     ELSE NoEffects]
    /\ spinLog = 0
    /\ draws = 0
    /\ now = InitTime
    /\ slotLock = 0
    /\ dbLock = 0
    /\ pc = [t \in Tasks |-> "db_idle"]
    /\ loc = [t \in Tasks |-> Fresh]
    /\ reqLeft = 0

NextDb ==
    \/ \E t \in Tasks, c \in AdjustCalls : DbStartAdjust(t, c[1], c[2][1], c[2][2])
    \/ \E t \in Tasks, c \in TransferCalls : DbStartTransfer(t, c[1], c[2], c[3])
    \/ \E t \in Tasks : DbConnect(t)
    \/ \E t \in Tasks : DbSelect(t)
    \/ \E t \in Tasks : DbUpdate(t)
    \/ \E t \in Tasks : DbCommit(t)
    \/ \E t \in Tasks : DbRaise(t)

SpecDb == InitDb /\ [][NextDb]_vars

-----------------------------------------------------------------------------
(* The items and the effects they give, with a shop that sells the           *)
(* subscription: /use of every kind of item, /stats and spins of a player    *)
(* who holds a win boost                                                     *)

\* seconds the effects stored at the start still have to run
EffectLeft == 450

AllItemIds == ItemIds \cup {AccessItemId}

AllEffectTypes == EffectTypes \cup {"analytics_subscription"}

EffectSlotRequests == { <<"p1", "fruit", 0>> }

BoostEffect ==
    [item_id |-> BoostItemId, expires_at |-> InitTime + EffectLeft,
     value |-> BoostMultiplierPct]

AccessEffect == [item_id |-> AccessItemId, expires_at |-> InitTime + EffectLeft, value |-> 0]

\* the first player holds one credit line (it does not stack), one win boost
\* and two units of the subscription (configured to stack),
\* with a credit line and a win boost running, or with the subscription
\* running, or with a win boost and the subscription running
EffectProfiles ==
    { ("credit_line" :> CreditEffect) @@ ("win_boost" :> BoostEffect)
         @@ ("analytics_subscription" :> NoEffect),
      ("credit_line" :> NoEffect) @@ ("win_boost" :> NoEffect)
         @@ ("analytics_subscription" :> AccessEffect),
      ("credit_line" :> NoEffect) @@ ("win_boost" :> BoostEffect)
         @@ ("analytics_subscription" :> AccessEffect) }

InitEffects ==
    /\ balance = [p \in Players |-> IF p = "p1" THEN 50 ELSE StartingBalance]
    /\ items = [p \in Players |->
                   IF p = "p1"
                   THEN (CreditItemId :> 1) @@ (BoostItemId :> 1) @@ (AccessItemId :> 2)
                   ELSE [i \in AllItemIds |-> 0]]
    /\ \E f \in EffectProfiles :
          effects = [p \in Players |->
                        IF p = "p1" THEN f ELSE [e \in AllEffectTypes |-> NoEffect]]
    /\ lastDaily = [p \in Players |-> NoStamp]
    /\ jackpots = [m \in JackpotMachines |-> Absent]
    /\ spinLog = 0
    /\ draws = 0
    /\ now = InitTime
    /\ slotLock = 0
    /\ dbLock = 0
    /\ pc = [t \in Tasks |-> "idle"]
    /\ loc = [t \in Tasks |-> Fresh]
    /\ reqLeft = MaxRequests

NextEffects ==
    \/ \E t \in Tasks, r \in EffectSlotRequests : StartSlots(t, r[1], r[2], r[3])
    \/ \E t \in Tasks : AcquireSlotLock(t)
    \/ \E t \in Tasks : SlotsGetUser(t)
    \/ \E t \in Tasks : SlotsGetCredit(t)
    \/ \E t \in Tasks : SlotsDeduct(t)
    \/ \E t \in Tasks : SlotsSpin(t)
    \/ \E t \in Tasks : SlotsPay(t)
    \/ \E t \in Tasks : SlotsReadBoost(t)
    \/ \E t \in Tasks : SlotsClearBoost(t)
    \/ \E t \in Tasks : SlotsPayBonus(t)
    \/ \E t \in Tasks : SlotsRecord(t)
    \/ \E t \in Tasks, u \in Shoppers, item \in AllItemIds : StartUse(t, u, item)
    \/ \E t \in Tasks : UseHasItem(t)
    \/ \E t \in Tasks : UseGetCredit(t)
    \/ \E t \in Tasks : UseConsume(t)
    \/ \E t \in Tasks : UseSetEffect(t)
    \/ \E t \in Tasks : UseReadAccess(t)
    \/ \E t \in Tasks : AccessReap(t)
    \/ \E t \in Tasks : UseNow(t)
    \/ \E t \in Tasks : UseSetAccess(t)
    \/ \E t \in Tasks, u \in Shoppers : StartStats(t, u)
    \/ \E t \in Tasks : StatsReadAccess(t)
    \/ \E t \in Tasks : StatsReport(t)
    \/ Tick

SpecEffects == InitEffects /\ [][NextEffects]_vars

-----------------------------------------------------------------------------
(* Spins of the pirate machine under the scheduling of the event loop: a     *)
(* handler that can take its next step is resumed                            *)

CascadeRequests == { <<"p1", "pirate", 100>>, <<"p2", "pirate", 100>> }

\* the steps of the handler of task t after its arrival
CascadeStep(t) ==
    \/ AcquireSlotLock(t)
    \/ SlotsGetUser(t)
    \/ SlotsGetCredit(t)
    \/ SlotsDeduct(t)
    \/ SlotsClearCredit(t)
    \/ SlotsSpin(t)
    \/ SlotsPay(t)
    \/ SlotsReadBoost(t)
    \/ SlotsRecord(t)

NextCascade ==
    \/ \E t \in Tasks, r \in CascadeRequests : StartSlots(t, r[1], r[2], r[3])
    \/ \E t \in Tasks : AcquireSlotLock(t)
    \/ \E t \in Tasks : SlotsGetUser(t)
    \/ \E t \in Tasks : SlotsGetCredit(t)
    \/ \E t \in Tasks : SlotsDeduct(t)
    \/ \E t \in Tasks : SlotsClearCredit(t)
    \/ \E t \in Tasks : SlotsSpin(t)
    \/ \E t \in Tasks : SlotsPay(t)
    \/ \E t \in Tasks : SlotsReadBoost(t)
    \/ \E t \in Tasks : SlotsRecord(t)

SpecCascade ==
    Init /\ [][NextCascade]_vars /\ \A t \in Tasks : WF_vars(CascadeStep(t))

-----------------------------------------------------------------------------
(* One event on a fresh database: a function of slots.py or bot.py called   *)
(* on its own, on every triplet of a reel, or the ledger called twice in a   *)
(* row, or one spin of the fruit machine by a player with the starting       *)
(* balance                                                                   *)

EvalBets == {1, 100}

\* the pool passed to evaluate
EvalPool == 5001

ContributionBets == {1, 99, 100, 499, 500, 1000}

ResolveBalances == {-50, 0, 1, 19, 20, 30, 39, 50, 1000, 19999, 20000, 30000}

\* bet arguments: 0 for none, a number, a number that is not positive
ResolveArgs == {0, 100, -5}

LedgerBalances == {-50, 0, 50}

LedgerDeltas == {30, 100, 400}

OverdraftCalls == { <<FALSE, 0>>, <<TRUE, CreditLimit>> }

EvalRequests == { <<"p2", "fruit", 100>>, <<"p2", "pirate", 100>> }

Triplets(m) == {<<a, b, c>> : a \in ReelSet(m), b \in ReelSet(m), c \in ReelSet(m)}

\* the three calls below return before any other coroutine runs: the task
\* keeps the arguments and the result

\* machine.evaluate(symbols, bet, jackpot_balance)
CallEvaluate(t, m, bet) ==
    /\ Arrive(t)
    /\ \E symbols \in Triplets(m) :
          LET o == Evaluate(m, symbols, bet, EvalPool) IN
          loc' = [loc EXCEPT ![t] =
                     [Fresh EXCEPT !.op = "evaluate", !.machine = m, !.syms = symbols,
                                   !.bet = bet, !.jb = EvalPool, !.win = o.winnings,
                                   !.jwin = o.jackpot_win, !.fs = o.free_spins]]
    /\ UNCHANGED <<dbVars, draws, now, slotLock, dbLock, pc>>

\* machine.jackpot_contribution(bet)
CallContribution(t, m, bet) ==
    /\ Arrive(t)
    /\ loc' = [loc EXCEPT ![t] =
                  [Fresh EXCEPT !.op = "contribution", !.machine = m, !.bet = bet,
                                !.amount = JackpotContribution(m, bet)]]
    /\ UNCHANGED <<dbVars, draws, now, slotLock, dbLock, pc>>

\* self._resolve_bet(balance, bet_arg)
CallResolveBet(t, bal, bet_arg) ==
    /\ Arrive(t)
    /\ loc' = [loc EXCEPT ![t] =
                  [Fresh EXCEPT !.op = "resolve", !.ubal = bal, !.arg = bet_arg,
                                !.bet = ResolveBet(bal, bet_arg)]]
    /\ UNCHANGED <<dbVars, draws, now, slotLock, dbLock, pc>>

\* adjust_balance(id, -delta, allow_overdraft=..., overdraft_limit=...)
LedgerDebit(t, delta, allow_overdraft, overdraft_limit) ==
    /\ Arrive(t)
    /\ LET current == balance["p1"] IN
       IF AdjustFails(current, -delta, allow_overdraft, overdraft_limit)
       THEN /\ balance' = [balance EXCEPT !["p1"] = FailedAdjust(current, -delta)]
            /\ pc' = pc
            /\ loc' = [loc EXCEPT ![t] = [Fresh EXCEPT !.op = "ledger", !.user = "p1",
                                                       !.result = "Refused"]]
       ELSE /\ balance' = [balance EXCEPT !["p1"] = current - delta]
            /\ pc' = [pc EXCEPT ![t] = "l_credit"]
            /\ loc' = [loc EXCEPT ![t] = [Fresh EXCEPT !.op = "ledger", !.user = "p1",
                                                       !.cur = current, !.amount = delta,
                                                       !.credit = allow_overdraft,
                                                       !.limit = overdraft_limit]]
    /\ UNCHANGED <<lastDaily, jackpots, items, effects, spinLog, draws, now,
                   slotLock, dbLock>>

\* adjust_balance(id, delta), called as every credit of bot.py is: without
\* overdraft arguments
LedgerCredit(t) ==
    /\ pc[t] = "l_credit"
    /\ LET current == balance["p1"] IN
       IF AdjustFails(current, loc[t].amount, FALSE, 0)
       THEN /\ balance' = [balance EXCEPT !["p1"] = FailedAdjust(current, loc[t].amount)]
            /\ Finish(t, "CreditFailed")
       ELSE /\ balance' = [balance EXCEPT !["p1"] = current + loc[t].amount]
            /\ Finish(t, "Done")
    /\ UNCHANGED <<lastDaily, jackpots, items, effects, spinLog, draws, now,
                   dbLock, reqLeft>>

InitEval ==
    /\ \E b \in LedgerBalances :
          balance = [p \in Players |-> IF p = "p1" THEN b ELSE StartingBalance]
    /\ items = [p \in Players |-> [i \in ItemIds |-> 0]]
    /\ effects = [p \in Players |-> [e \in EffectTypes |-> NoEffect]]
    /\ lastDaily = [p \in Players |-> NoStamp]
    /\ jackpots = [m \in JackpotMachines |-> Absent]
    /\ spinLog = 0
    /\ draws = 0
    /\ now = InitTime
    /\ slotLock = 0
    /\ dbLock = 0
    /\ pc = [t \in Tasks |-> "idle"]
    /\ loc = [t \in Tasks |-> Fresh]
    /\ reqLeft = 1

NextEval ==
    \/ \E t \in Tasks, m \in Machines, bet \in EvalBets : CallEvaluate(t, m, bet)
    \/ \E t \in Tasks, m \in Machines, bet \in ContributionBets : CallContribution(t, m, bet)
    \/ \E t \in Tasks, bal \in ResolveBalances, a \in ResolveArgs : CallResolveBet(t, bal, a)
    \/ \E t \in Tasks, delta \in LedgerDeltas, o \in OverdraftCalls :
          LedgerDebit(t, delta, o[1], o[2])
    \/ \E t \in Tasks : LedgerCredit(t)
    \/ \E t \in Tasks, r \in EvalRequests : StartSlots(t, r[1], r[2], r[3])
    \/ \E t \in Tasks : AcquireSlotLock(t)
    \/ \E t \in Tasks : SlotsGetUser(t)
    \/ \E t \in Tasks : SlotsGetCredit(t)
    \/ \E t \in Tasks : SlotsDeduct(t)
    \/ \E t \in Tasks : SlotsSpin(t)
    \/ \E t \in Tasks : SlotsPay(t)
    \/ \E t \in Tasks : SlotsReadBoost(t)
    \/ \E t \in Tasks : SlotsRecord(t)

SpecEval == InitEval /\ [][NextEval]_vars

-----------------------------------------------------------------------------
(* The shop: /buy and /use of a player who can pay for three items and      *)
(* holds one unit of each                                                    *)

InitShop ==
    /\ balance = [p \in Players |->
                     IF p = "p1" THEN CreditPrice + CreditPrice + BoostPrice
                     ELSE StartingBalance]
    /\ items = [p \in Players |->
                   IF p = "p1" THEN (CreditItemId :> 1) @@ (BoostItemId :> 1)
                   ELSE [i \in ItemIds |-> 0]]
    /\ effects = [p \in Players |-> NoEffects]
    /\ lastDaily = [p \in Players |-> NoStamp]
    /\ jackpots = [m \in JackpotMachines |-> Absent]
    /\ spinLog = 0
    /\ draws = 0
    /\ now = InitTime
    /\ slotLock = 0
    /\ dbLock = 0
    /\ pc = [t \in Tasks |-> "idle"]
    /\ loc = [t \in Tasks |-> Fresh]
    /\ reqLeft = MaxRequests

NextShop ==
    \/ \E t \in Tasks, u \in Shoppers, item \in ItemIds : StartBuy(t, u, item)
    \/ \E t \in Tasks : BuyGetUser(t)
    \/ \E t \in Tasks : BuyHasItem(t)
    \/ \E t \in Tasks : BuyPay(t)
    \/ \E t \in Tasks : BuyAddItem(t)
    \/ \E t \in Tasks, u \in Shoppers, item \in ItemIds : StartUse(t, u, item)
    \/ \E t \in Tasks : UseHasItem(t)
    \/ \E t \in Tasks : UseGetCredit(t)
    \/ \E t \in Tasks : UseConsume(t)
    \/ \E t \in Tasks : UseSetEffect(t)

SpecShop == InitShop /\ [][NextShop]_vars

-----------------------------------------------------------------------------
(* The queue at the spin lock: spins that leave by every way out, under the  *)
(* scheduling of the event loop                                              *)

QueueRequests ==
    { <<"p1", "fruit", 0>>, <<"p1", "fruit", 100>>, <<"p1", "fruit", -5>>,
      <<"p1", "pirate", 100>>, <<"p3", "fruit", 100>> }

\* the first player in debt on a second credit line, with 50 chips, or rich
QueueProfiles ==
    { [bal |-> -50, credit |-> CreditEffect],
      [bal |-> 50, credit |-> NoEffect],
      [bal |-> 5050, credit |-> NoEffect] }

InitQueue ==
    /\ \E f \in QueueProfiles :
          /\ balance = [p \in Players |-> IF p = "p1" THEN f.bal ELSE StartingBalance]
          /\ effects = [p \in Players |->
                           IF p = "p1" THEN [NoEffects EXCEPT !["credit_line"] = f.credit]
                           ELSE NoEffects]
    /\ items = [p \in Players |-> [i \in ItemIds |-> 0]]
    /\ lastDaily = [p \in Players |-> NoStamp]
    /\ jackpots = [m \in JackpotMachines |-> Absent]
    /\ spinLog = 0
    /\ draws = 0
    /\ now = InitTime
    /\ slotLock = 0
    /\ dbLock = 0
    /\ pc = [t \in Tasks |-> "idle"]
    /\ loc = [t \in Tasks |-> Fresh]
    /\ reqLeft = MaxRequests

\* the steps of the handler of task t after its arrival
QueueStep(t) ==
    \/ AcquireSlotLock(t)
    \/ SlotsGetUser(t)
    \/ SlotsGetCredit(t)
    \/ SlotsDeduct(t)
    \/ SlotsClearCredit(t)
    \/ SlotsSpin(t)
    \/ SlotsPay(t)
    \/ SlotsReadBoost(t)
    \/ SlotsRecord(t)

NextQueue ==
    \/ \E t \in Tasks, r \in QueueRequests : StartSlots(t, r[1], r[2], r[3])
    \/ \E t \in Tasks : AcquireSlotLock(t)
    \/ \E t \in Tasks : SlotsGetUser(t)
    \/ \E t \in Tasks : SlotsGetCredit(t)
    \/ \E t \in Tasks : SlotsDeduct(t)
    \/ \E t \in Tasks : SlotsClearCredit(t)
    \/ \E t \in Tasks : SlotsSpin(t)
    \/ \E t \in Tasks : SlotsPay(t)
    \/ \E t \in Tasks : SlotsReadBoost(t)
    \/ \E t \in Tasks : SlotsRecord(t)

SpecQueue ==
    InitQueue /\ [][NextQueue]_vars /\ \A t \in Tasks : WF_vars(QueueStep(t))

-----------------------------------------------------------------------------
(* Delivery: /slots help, whose handler is one _safe_reply, with the retry   *)
(* loop step by step, and spins whose replies and edits fail as Telegram     *)
(* likes; a handler that can take its next step is resumed                   *)

\* for attempt in range(3)
MaxAttempts == 3

\* what one reply_text or edit_text does: returns, raises RetryAfter, raises
\* another TelegramError
SendOutcomes == {"sent", "retry_after", "error"}

FlakyRequests == { <<"p1", "pharaoh", 100>>, <<"p1", "pirate", 100>> }

\* a loop that goes on while the sends are rate limited
AttemptsUnbounded(attempt) == TRUE

\* the loop of _safe_reply has another iteration
AttemptsLeft(attempt) == attempt < MaxAttempts

\* slots, lines 632-635: _safe_reply(message, help_text, reply=False)
StartHelp(t) ==
    /\ Arrive(t)
    /\ pc' = [pc EXCEPT ![t] = "d_try"]
    /\ loc' = [loc EXCEPT ![t] = [Fresh EXCEPT !.op = "help", !.transport = "flaky"]]
    /\ UNCHANGED <<dbVars, draws, now, slotLock, dbLock>>

\* one iteration of the loop of _safe_reply: loc.i counts the attempts made
DeliveryAttempt(t) ==
    /\ pc[t] = "d_try"
    /\ \E outcome \in SendOutcomes :
          LET made == [loc[t] EXCEPT !.i = loc[t].i + 1] IN
          CASE outcome = "sent" -> Finish(t, "Delivered")
            [] outcome = "retry_after" -> Goto(t, "d_sleep", made)
            [] outcome = "error" -> Finish(t, "Dropped")
    /\ UNCHANGED <<dbVars, draws, now, dbLock, reqLeft>>

\* await asyncio.sleep(exc.retry_after + 0.1), then the next iteration or
\* return None
DeliverySleep(t) ==
    /\ pc[t] = "d_sleep"
    /\ IF AttemptsLeft(loc[t].i) THEN Goto(t, "d_try", loc[t])
       ELSE Finish(t, "Dropped")
    /\ UNCHANGED <<dbVars, draws, now, dbLock, reqLeft>>

\* the steps of the handler of task t after its arrival (the pool row exists
\* when a spin reads it back: its own contribution created it)
DeliveryStep(t) ==
    \/ DeliveryAttempt(t)
    \/ DeliverySleep(t)
    \/ AcquireSlotLock(t)
    \/ SlotsGetUser(t)
    \/ SlotsGetCredit(t)
    \/ SlotsDeduct(t)
    \/ SlotsClearCredit(t)
    \/ SlotsContribute(t)
    \/ SlotsSpin(t)
    \/ SlotsPay(t)
    \/ SlotsReadBoost(t)
    \/ SlotsRecord(t)
    \/ SlotsResetJackpot(t)
    \/ PeekRead(t)

NextDelivery ==
    \/ \E t \in Tasks : StartHelp(t)
    \/ \E t \in Tasks : DeliveryAttempt(t)
    \/ \E t \in Tasks : DeliverySleep(t)
    \/ \E t \in Tasks, r \in FlakyRequests : StartSlotsFlaky(t, r[1], r[2], r[3])
    \/ \E t \in Tasks : AcquireSlotLock(t)
    \/ \E t \in Tasks : SlotsGetUser(t)
    \/ \E t \in Tasks : SlotsGetCredit(t)
    \/ \E t \in Tasks : SlotsDeduct(t)
    \/ \E t \in Tasks : SlotsClearCredit(t)
    \/ \E t \in Tasks : SlotsContribute(t)
    \/ \E t \in Tasks : SlotsSpin(t)
    \/ \E t \in Tasks : SlotsPay(t)
    \/ \E t \in Tasks : SlotsReadBoost(t)
    \/ \E t \in Tasks : SlotsRecord(t)
    \/ \E t \in Tasks : SlotsResetJackpot(t)
    \/ \E t \in Tasks : PeekRead(t)

SpecDelivery ==
    Init /\ [][NextDelivery]_vars /\ \A t \in Tasks : WF_vars(DeliveryStep(t))

-----------------------------------------------------------------------------
(* Properties *)

\* the steps of a /slots request made while it holds the slot lock
SpinSection ==
    {"s_user", "s_credit", "s_deduct", "s_clear", "s_contrib", "s_spin", "s_pay",
     "s_boost", "s_unboost", "s_bonus", "s_record", "s_reset"}

InSpin(t) ==
    \/ pc[t] \in SpinSection
    \/ pc[t] \in {"peek1", "peek2"} /\ loc[t].op = "slots"

\* task t takes a step
Steps(t) == pc'[t] # pc[t]

AllWild(m, symbols) == \A i \in 1..3 : symbols[i] = WildSymbol(m)

\* C1 as the specification states it: a player's balance is at least
\* -creditLimit while a credit line is active and at least 0 otherwise
C1_BalanceFloorAsStated ==
    \A p \in Players :
        IF CreditActive(effects[p]["credit_line"])
        THEN balance[p] >= -CreditLimitOf(effects[p]["credit_line"])
        ELSE balance[p] >= 0

\* C1: a player's balance is at least -creditLimit of the active credit line
\* while one is active; with none active it is at least -creditLimit as well,
\* since the spin that consumes a credit line leaves its debt behind
C1_BalanceFloor ==
    \A p \in Players :
        /\ CreditActive(effects[p]["credit_line"])
              => balance[p] >= -CreditLimitOf(effects[p]["credit_line"])
        /\ ~CreditActive(effects[p]["credit_line"]) => balance[p] >= -CreditLimit

C1_Witness ==
    \E p \in Players :
        /\ ~CreditActive(effects[p]["credit_line"])
        /\ balance[p] = -350
        /\ spinLog > 0

\* C2 as the specification states it: the credit of a spin's winnings never
\* fails, whatever the balance: the step that pays adds the winnings
C2_WinningsAlwaysCredited ==
    [][\A t \in Tasks :
          (pc[t] = "s_pay" /\ Steps(t))
             => /\ pc'[t] = "s_boost"
                /\ balance'[loc[t].user] = balance[loc[t].user] + loc[t].win]_vars

\* C3: a /slots request whose bet deduction is refused changes nothing: none of
\* its steps up to and including the refused deduction touches a balance, a
\* pool, the inventory, an effect or the spin log, and no symbol is drawn
C3_RefusedBetNoEffect ==
    [][\A t \in Tasks :
          (/\ Steps(t)
           /\ \/ pc[t] = "idle" /\ pc'[t] = "s_lock"
              \/ pc[t] \in {"s_lock", "s_user", "s_credit"}
              \/ pc[t] = "s_deduct" /\ pc'[t] = "idle")
             => UNCHANGED <<dbVars, draws>>]_vars

C3_Witness ==
    \E t \in Tasks :
        /\ pc[t] = "idle"
        /\ loc[t].result = "BetRefused"
        /\ balance["p1"] = 50
        /\ draws = 0
        /\ spinLog = 0

\* C4: the credit line is cleared in the spin whose deduction leaves the
\* balance negative, whatever part of the limit was drawn, and no other step
\* of a spin touches it: it stays active when the balance stays at or above 0
C4_CreditLineOneShot ==
    [][\A t \in Tasks :
          (loc[t].op = "slots" /\ loc[t].user \in Players /\ Steps(t))
             => LET u == loc[t].user IN
                /\ (pc[t] = "s_deduct" /\ pc'[t] # "idle")
                      => ((pc'[t] = "s_clear")
                             <=> (CreditActive(effects[u]["credit_line"])
                                    /\ balance'[u] < 0))
                /\ IF pc[t] = "s_clear"
                   THEN effects'[u]["credit_line"] = NoEffect
                   ELSE effects'[u]["credit_line"] = effects[u]["credit_line"]]_vars

C4_Witness ==
    \E t \in Tasks :
        /\ pc[t] = "s_spin"
        /\ loc[t].ubal = 50
        /\ loc[t].bet = 400
        /\ loc[t].bab = -350
        /\ balance[loc[t].user] = -350
        /\ ~CreditActive(effects[loc[t].user]["credit_line"])

\* C5 as the specification states it: a pool never goes down except in the
\* reset that follows a jackpot award, and that reset leaves it at the seed
C5_PoolNeverDecreases ==
    [][\A m \in JackpotMachines :
          jackpots'[m] < jackpots[m]
             => \E t \in Tasks :
                   /\ pc[t] = "s_reset"
                   /\ Steps(t)
                   /\ loc[t].machine = m
                   /\ jackpots'[m] = JackpotSeed(m)]_vars

\* C6 as the specification states it: three wilds win bet * jackpotMultiplier
\* plus the pool as it stood when the spin was requested, and the spin leaves
\* the pool at the seed
C6_JackpotAsStated ==
    [][\A t \in Tasks :
          (loc[t].op = "slots" /\ Steps(t) /\ SupportsJackpot(loc[t].machine))
             => LET m == loc[t].machine IN
                /\ (pc[t] = "s_spin" /\ ~loc[t].free /\ AllWild(m, loc'[t].syms))
                      => loc'[t].win = loc[t].bet * JackpotMultiplier(m)
                                         + (IF loc[t].pool0 = Absent
                                            THEN JackpotSeed(m) ELSE loc[t].pool0)
                /\ (loc[t].jwin > 0 /\ pc'[t] = "idle")
                      => jackpots'[m] = JackpotSeed(m)]_vars

\* C6: three wilds win bet * jackpotMultiplier plus the pool as add_to_jackpot
\* returned it, this spin's own contribution included; the spin resets the
\* pool and leaves it at the seed
C6_JackpotAfterContribution ==
    [][\A t \in Tasks :
          (loc[t].op = "slots" /\ Steps(t) /\ SupportsJackpot(loc[t].machine))
             => LET m == loc[t].machine IN
                /\ pc[t] = "s_contrib"
                      => /\ loc'[t].jb = jackpots'[m]
                         /\ jackpots'[m] =
                               IF jackpots[m] = Absent
                               THEN Max(JackpotContribution(m, loc[t].bet), JackpotSeed(m))
                               ELSE jackpots[m] + JackpotContribution(m, loc[t].bet)
                /\ (pc[t] = "s_spin" /\ ~loc[t].free /\ AllWild(m, loc'[t].syms))
                      => /\ loc'[t].win = loc[t].bet * JackpotMultiplier(m) + loc[t].jb
                         /\ loc'[t].jwin = loc[t].jb
                /\ (pc[t] = "s_record" /\ loc[t].jwin > 0) => pc'[t] = "s_reset"
                /\ pc[t] = "s_reset" => jackpots'[m] = JackpotSeed(m)
                /\ (loc[t].jwin > 0 /\ pc'[t] = "idle")
                      => /\ loc'[t].result = "Done"
                         /\ jackpots'[m] = JackpotSeed(m)]_vars

C6_Witness ==
    \E t \in Tasks :
        /\ pc[t] = "peek1"
        /\ loc[t].op = "slots"
        /\ loc[t].pool0 = 5000
        /\ loc[t].bet = 100
        /\ loc[t].jb = 5001
        /\ loc[t].win = 11001
        /\ jackpots[loc[t].machine] = JackpotSeed(loc[t].machine)

\* what the call made by thread t has added to the balance of p
NetEffect(t, p) ==
    IF pc[t] # "db_done" \/ loc[t].result # "Done" THEN 0
    ELSE IF loc[t].op = "adjust"
         THEN (IF loc[t].user = p THEN loc[t].amount ELSE 0)
         ELSE (IF loc[t].user = p THEN -loc[t].amount ELSE 0)
                 + (IF loc[t].other = p THEN loc[t].amount ELSE 0)

RECURSIVE SumEffects(_, _)
SumEffects(S, p) ==
    IF S = {} THEN 0
    ELSE LET t == CHOOSE x \in S : TRUE
         IN  NetEffect(t, p) + SumEffects(S \ {t}, p)

\* C7: concurrent calls lose no update: every stored balance is the initial
\* balance plus the deltas of all the calls that have returned successfully
C7_NoLostUpdate ==
    \A p \in Players : balance[p] = DbInitBalance + SumEffects(Tasks, p)

C7_Witness ==
    \E t1, t2 \in Tasks :
        /\ t1 # t2
        /\ pc[t1] = "db_done" /\ pc[t2] = "db_done"
        /\ loc[t1].op = "adjust" /\ loc[t2].op = "adjust"
        /\ loc[t1].result = "Done" /\ loc[t2].result = "Done"
        /\ loc[t1].amount = 70 /\ loc[t2].amount = -30
        /\ loc[t1].cur = 50 /\ loc[t2].cur = 120
        /\ balance["p1"] = 90

\* C8: a transfer is all or nothing: the stored balances change only in the
\* step that commits it, where the sender loses and the recipient gains the
\* amount together; a refused transfer changes nothing; the total is kept
C8_TransferAtomic ==
    [][\A t \in Tasks :
          (loc[t].op = "transfer" /\ Steps(t))
             => /\ IF pc'[t] = "db_done" /\ loc'[t].result = "Done"
                   THEN balance' = [balance EXCEPT
                                      ![loc[t].user] = @ - loc[t].amount,
                                      ![loc[t].other] = @ + loc[t].amount]
                   ELSE balance' = balance
                /\ balance'["p1"] + balance'["p2"] = balance["p1"] + balance["p2"]]_vars

C8_Witness ==
    \E t \in Tasks :
        /\ pc[t] = "db_done"
        /\ loc[t].op = "transfer"
        /\ loc[t].result = "Done"
        /\ loc[t].amount = 30
        /\ balance["p1"] = 20
        /\ balance["p2"] = 80

\* C9: at most one /slots request is inside the spin sequence, free-spin
\* cascade included, at any time
C9_OneSpinAtATime ==
    \A t1, t2 \in Tasks : (InSpin(t1) /\ InSpin(t2)) => t1 = t2

C9_Witness ==
    \E t1, t2 \in Tasks :
        /\ pc[t1] = "s_lock"
        /\ InSpin(t2)
        /\ loc[t2].free
        /\ slotLock = t2

\* C10: adjust_balance is refused exactly when current + delta is below the
\* floor, -overdraft_limit with allow_overdraft and 0 without; a refused call
\* leaves the balance as it was and an accepted one adds delta
C10_AdjustFloor ==
    [][\A t \in Tasks :
          (loc[t].op = "adjust" /\ Steps(t) /\ pc'[t] = "db_done")
             => LET u == loc[t].user
                    floor == IF loc[t].credit THEN -loc[t].limit ELSE 0
                    below == balance[u] + loc[t].amount < floor
                IN  /\ (loc'[t].result = "Refused") <=> below
                    /\ balance'[u] = IF below THEN balance[u]
                                     ELSE balance[u] + loc[t].amount]_vars

C10_Witness ==
    \E t \in Tasks :
        /\ pc[t] = "db_done"
        /\ loc[t].op = "adjust"
        /\ loc[t].cur = 50
        /\ loc[t].amount = -100
        /\ ~loc[t].credit
        /\ loc[t].result = "Refused"
        /\ balance["p1"] = 50

\* C11: a transfer with amount <= 0, an unregistered sender or recipient, or
\* a sender whose balance is below the amount is refused and changes no
\* balance; the sender's active credit line does not count: a transfer that
\* goes through leaves the sender at or above 0
C11_TransferRefused ==
    [][\A t \in Tasks :
          (loc'[t].op = "transfer" /\ Steps(t) /\ pc'[t] = "db_done")
             => LET s == loc'[t].user
                    r == loc'[t].other
                    a == loc'[t].amount
                    bad == \/ a <= 0
                           \/ s \notin Players
                           \/ r \notin Players
                           \/ balance[s] < a
                IN  /\ bad <=> loc'[t].result = "Refused"
                    /\ bad => balance' = balance
                    /\ ~bad => balance'[s] >= 0]_vars

C11_Witness ==
    \E t \in Tasks :
        /\ pc[t] = "db_done"
        /\ loc[t].op = "transfer"
        /\ loc[t].user = "p1"
        /\ loc[t].amount = 100
        /\ loc[t].cur = 50
        /\ loc[t].result = "Refused"
        /\ CreditActive(effects["p1"]["credit_line"])
        /\ balance["p1"] = 50

\* C13 as the specification states it: get_jackpot never changes the amount
\* of a pool that exists, so after a contribution the pool is never below the
\* total add_to_jackpot returned until a jackpot is awarded
C13_PeekKeepsPool ==
    [][\A t \in Tasks :
          (pc[t] \in {"peek1", "peek2"} /\ Steps(t))
             => \A m \in JackpotMachines :
                   jackpots[m] # Absent => jackpots'[m] = jackpots[m]]_vars


\* C12 as the specification states it: the delete that follows the reading of
\* an expired win boost or subscription removes only the record that was read,
\* never a record that is not expired at the time of the delete
C12_ReapOnlyExpired ==
    [][\A t \in Tasks :
          (pc[t] \in {"s_unboost", "a_reap"} /\ Steps(t))
             => LET kind == IF pc[t] = "s_unboost" THEN "win_boost"
                            ELSE "analytics_subscription"
                    effect == effects[loc[t].user][kind]
                IN  effect # NoEffect => Expired(effect.expires_at, now)]_vars

\* C14 as the specification states it: a /use of a win boost while a win boost
\* is active and not expired leaves the inventory and the effect as they were
C14_BoostReuseRejected ==
    [][\A t \in Tasks :
          (/\ loc[t].op = "use" /\ Steps(t)
           /\ ItemType(loc[t].item) = "win_boost"
           /\ effects[loc[t].user]["win_boost"] # NoEffect
           /\ ~Expired(effects[loc[t].user]["win_boost"].expires_at, now))
             => /\ items' = items
                /\ effects'[loc[t].user]["win_boost"] = effects[loc[t].user]["win_boost"]]_vars


\* C15: a /use of a credit line whose check finds a credit_line effect stored
\* for the player ends there with AlreadyActive: no unit is consumed and no
\* effect record changes
C15_CreditReuseRejected ==
    [][\A t \in Tasks :
          (/\ pc[t] = "u_credit" /\ Steps(t)
           /\ effects[loc[t].user]["credit_line"] # NoEffect)
             => /\ items' = items
                /\ effects' = effects
                /\ pc'[t] = "idle"
                /\ loc'[t].result = "AlreadyActive"]_vars

C15_Witness ==
    \E t \in Tasks :
       /\ pc[t] = "idle"
       /\ loc[t].result = "AlreadyActive"
       /\ items["p1"][CreditItemId] = 1
       /\ effects["p1"]["credit_line"] = CreditEffect


\* a /use request between its consume_item and its set_effect
Activating(pcs, locs, t) ==
    \/ pcs[t] \in {"u_set", "a_read", "a_now", "a_set"}
    \/ pcs[t] = "a_reap" /\ locs[t].op = "use"

\* C16: a /use request reaches its set_effect only through a consume_item that
\* took exactly one unit of the item from a positive quantity, nothing else
\* changes the inventory, set_effect ends the request, and no quantity falls
\* below 0: of two concurrent requests for the last unit one activates
C16_OneUnitOneActivation ==
    [][/\ \A t \in Tasks :
            (Activating(pc', loc', t) /\ ~Activating(pc, loc, t))
               => LET u == loc[t].user  item == loc[t].item
                  IN  /\ pc[t] = "u_consume"
                      /\ items[u][item] >= 1
                      /\ items' = [items EXCEPT ![u][item] = items[u][item] - 1]
       /\ items' # items
            => \E t \in Tasks : pc[t] = "u_consume" /\ Activating(pc', loc', t)
       /\ \A t \in Tasks :
            (pc[t] \in {"u_set", "a_set"} /\ Steps(t))
               => /\ pc'[t] = "idle"
                  /\ items' = items
                  /\ effects'[loc[t].user][ItemType(loc[t].item)] # NoEffect
       /\ \A p \in Players : \A i \in DOMAIN items'[p] : items'[p][i] >= 0]_vars

C16_Witness ==
    \E t, o \in Tasks :
       /\ pc[t] = "u_set" /\ loc[t].item = BoostItemId
       /\ pc[o] = "idle" /\ loc[o].result = "NothingToConsume"
       /\ items["p1"][BoostItemId] = 0


\* C17: when a spin with winnings > 0 reads an unexpired win_boost with a
\* multiplier above 1 it goes on to credit a bonus >= 1, and that bonus is
\* added to the balance; when it reads no win_boost, or an expired one, its
\* bonus is 0 and nothing more is credited
C17_BoostBonus ==
    [][\A t \in Tasks :
          LET u == loc[t].user
              effect == effects[u]["win_boost"]
              active == effect # NoEffect /\ effect.expires_at > now
          IN  /\ (pc[t] = "s_boost" /\ Steps(t))
                 => /\ (active /\ effect.value > 100 /\ loc[t].win > 0)
                          => pc'[t] = "s_bonus" /\ loc'[t].bonus >= 1
                    /\ ~active
                          => pc'[t] \in {"s_record", "s_unboost"} /\ loc'[t].bonus = 0
                    /\ balance' = balance
              /\ (pc[t] = "s_bonus" /\ Steps(t))
                 => /\ loc[t].bonus >= 1
                    /\ balance' = [balance EXCEPT ![u] = balance[u] + loc[t].bonus]
              /\ (pc[t] = "s_unboost" /\ Steps(t))
                 => balance' = balance /\ pc'[t] = "s_record" /\ loc'[t].bonus = 0]_vars

C17_Witness ==
    \E t \in Tasks :
       /\ pc[t] = "s_bonus"
       /\ loc[t].win = 4
       /\ loc[t].bonus = 1
       /\ effects[loc[t].user]["win_boost"] = BoostEffect
       /\ now < BoostEffect.expires_at


\* C18: a /use of the subscription reads the stored record: an unexpired one
\* gives its expires_at, an absent or expired one gives none; with now the
\* clock value the request reads next, it stores max(now, old expires_at) +
\* duration in the first case and now + duration in the second
C18_AccessExtended ==
    [][\A t \in Tasks :
          LET u == loc[t].user
              old == effects[u]["analytics_subscription"]
          IN  /\ (pc[t] = "a_read" /\ Steps(t))
                 => IF old # NoEffect /\ old.expires_at > now
                    THEN pc'[t] = "a_now" /\ loc'[t].cur = old.expires_at
                    ELSE pc'[t] \in {"a_now", "a_reap"} /\ loc'[t].cur = Absent
              /\ (pc[t] = "a_now" /\ Steps(t))
                 => loc'[t].stamp = now /\ loc'[t].cur = loc[t].cur
              /\ (pc[t] = "a_set" /\ Steps(t))
                 => effects'[u]["analytics_subscription"].expires_at =
                       IF loc[t].cur = Absent
                       THEN loc[t].stamp + AccessDuration
                       ELSE Max(loc[t].stamp, loc[t].cur) + AccessDuration]_vars

C18_Witness ==
    /\ effects["p1"]["analytics_subscription"].expires_at
          = AccessEffect.expires_at + AccessDuration
    /\ items["p1"][AccessItemId] = 1
    /\ \E t \in Tasks : pc[t] = "idle" /\ loc[t].result = "Done"


AllScatter == <<ScatterSymbol, ScatterSymbol, ScatterSymbol>>

\* C19: a paid spin of the pirate machine that draws three maps has winnings 0
\* and 10 free spins; no step of a cascade of free spins lowers the player's
\* balance or changes a jackpot pool, and none is a deduction of a bet or a
\* contribution
C19_ScatterFreeSpins ==
    [][\A t \in Tasks :
          /\ (/\ pc[t] = "s_spin" /\ Steps(t) /\ ~loc[t].free
              /\ MachineType(loc[t].machine) = "pirate" /\ loc'[t].syms = AllScatter)
                => /\ loc'[t].win = 0
                   /\ loc'[t].fs = 10
                   /\ pc'[t] = "s_record"
          /\ (loc[t].free /\ Steps(t))
                => /\ balance'[loc[t].user] >= balance[loc[t].user]
                   /\ jackpots' = jackpots
                   /\ pc[t] \notin {"s_deduct", "s_contrib", "s_reset"}]_vars

C19_Witness ==
    \E t \in Tasks :
       /\ loc[t].free /\ loc[t].i = 10 /\ loc[t].fs = 10
       /\ pc[t] = "s_record"
       /\ MachineType(loc[t].machine) = "pirate"


\* C20: a cascade starts at free spin 1 with the count the paid spin awarded,
\* no free spin changes that count, whatever it draws, each recorded free spin
\* is followed by the next one until the count is reached, the request then
\* ends and gives the spin lock back, and every cascade gets there
C20_CascadeEnds ==
    /\ [][\A t \in Tasks :
             /\ (~loc[t].free /\ loc'[t].free)
                   => loc'[t].i = 1 /\ loc'[t].fs = loc[t].fs /\ loc[t].fs >= 1
             /\ (loc[t].free /\ Steps(t))
                   => /\ slotLock = t
                      /\ loc[t].i \in 1..loc[t].fs
                      /\ pc[t] = "s_spin"
                            => loc'[t].free /\ loc'[t].fs = loc[t].fs /\ loc'[t].i = loc[t].i
                      /\ (pc[t] = "s_record" /\ loc[t].i < loc[t].fs)
                            => /\ pc'[t] = "s_spin" /\ loc'[t].free
                               /\ loc'[t].fs = loc[t].fs /\ loc'[t].i = loc[t].i + 1
                      /\ (pc[t] = "s_record" /\ loc[t].i = loc[t].fs)
                            => pc'[t] = "idle" /\ slotLock' = 0 /\ ~loc'[t].free]_vars
    /\ \A t \in Tasks : loc[t].free ~> (~loc[t].free /\ slotLock # t)

C20_Witness ==
    \E t \in Tasks :
       /\ loc[t].free /\ loc[t].i = loc[t].fs
       /\ loc[t].syms = AllScatter
       /\ pc[t] = "s_record"
       /\ slotLock = t


AllDiamonds == <<"diamond", "diamond", "diamond">>

\* the payout factor of the fruit machine as the claim gives it
ClassicFactor(symbols) ==
    IF symbols \in DOMAIN SpecialPayouts THEN SpecialPayouts[symbols]
    ELSE IF symbols[1] = symbols[2] /\ symbols[2] = symbols[3] THEN 5
    ELSE IF Cardinality({symbols[1], symbols[2], symbols[3]}) = 2 THEN 2
    ELSE 0

\* C22: on every triplet of the fruit reel evaluate returns bet x the table
\* entry of the triplet when there is one, else bet x 5 for three equal
\* symbols, else bet x 2 for exactly two distinct symbols, else 0, with no
\* jackpot and no free spins; and the spin of a player with balance 1000 and
\* bet 100 that draws three diamonds (table entry 50) is recorded with the
\* balance at 5900
C22_ClassicPayout ==
    \A t \in Tasks :
       /\ (loc[t].op = "evaluate" /\ loc[t].machine = "fruit")
             => /\ loc[t].win = loc[t].bet * ClassicFactor(loc[t].syms)
                /\ loc[t].jwin = 0
                /\ loc[t].fs = 0
       /\ (/\ loc[t].op = "slots" /\ pc[t] = "s_record" /\ loc[t].machine = "fruit"
           /\ loc[t].ubal = 1000 /\ loc[t].bet = 100 /\ loc[t].syms = AllDiamonds)
             => /\ loc[t].win = 5000
                /\ balance[loc[t].user] = 5900

C22_Witness ==
    \E t \in Tasks :
       /\ loc[t].op = "slots" /\ pc[t] = "s_record"
       /\ loc[t].syms = AllDiamonds
       /\ loc[t].ubal = 1000 /\ loc[t].bet = 100
       /\ balance[loc[t].user] = 5900

\* the positions of a triplet that do not hold the wild symbol
NonWildPositions(m, symbols) == {i \in 1..3 : symbols[i] # WildSymbol(m)}

\* the best symbol as the claim gives it: the greatest score, and on a tie the
\* earlier position
ClaimBest(m, symbols) ==
    LET score(i) == Get(TriplePayouts(m), symbols[i]) * 10 + Get(DoublePayouts(m), symbols[i])
        P == NonWildPositions(m, symbols)
        best == CHOOSE i \in P :
                   \A j \in P : score(j) < score(i) \/ (score(j) = score(i) /\ j >= i)
    IN  symbols[best]

\* the winnings of a wild machine as the claim gives them, for fewer than
\* three wild symbols
ClaimWildWinnings(m, symbols, bet) ==
    LET wilds == 3 - Cardinality(NonWildPositions(m, symbols))
        occurrences(x) == Cardinality({i \in 1..3 : symbols[i] = x})
    IN  IF wilds > 0
        THEN LET best == ClaimBest(m, symbols)
                 matchCount == occurrences(best) + wilds
             IN  IF matchCount >= 3 THEN bet * Get(TriplePayouts(m), best)
                 ELSE IF matchCount = 2 THEN bet * Get(DoublePayouts(m), best)
                 ELSE 0
        ELSE IF symbols[1] = symbols[2] /\ symbols[2] = symbols[3]
             THEN bet * Get(TriplePayouts(m), symbols[1])
        ELSE IF \E x \in {symbols[1], symbols[2], symbols[3]} : occurrences(x) = 2
             THEN LET x == CHOOSE y \in {symbols[1], symbols[2], symbols[3]} :
                              occurrences(y) = 2
                  IN  bet * Get(DoublePayouts(m), x)
        ELSE 0

\* C23: on every triplet of the reel of a wild machine with fewer than three
\* wild symbols, evaluate returns the winnings the claim describes (best
\* symbol by score with the earlier position on a tie, match count = its
\* occurrences + wild count, triple table from 3, double table at 2; without
\* a wild the triple table for three of a kind, else the double table for a
\* pair, else 0), with no jackpot win
C23_WildPayout ==
    \A t \in Tasks :
       (/\ loc[t].op = "evaluate" /\ loc[t].machine \in JackpotMachines
        /\ NonWildPositions(loc[t].machine, loc[t].syms) # {})
          => /\ loc[t].win = ClaimWildWinnings(loc[t].machine, loc[t].syms, loc[t].bet)
             /\ loc[t].jwin = 0

\* one wild with a low symbol before a high one: the pair of snakes pays
C23_Witness ==
    \E t \in Tasks :
       /\ loc[t].op = "evaluate" /\ loc[t].machine = "pharaoh"
       /\ loc[t].syms = <<"sun", "snake", "moai">>
       /\ loc[t].bet = 100
       /\ loc[t].win = 200


\* C24 as the specification states it: for every bet > 0 on a machine with a
\* jackpot, jackpot_contribution(bet) is at least 5
C24_ContributionFloor ==
    \A t \in Tasks :
       (/\ loc[t].op = "contribution" /\ loc[t].machine \in JackpotMachines
        /\ loc[t].bet > 0)
          => loc[t].amount >= 5

\* C26 as the specification states it: after adjust(id, -delta) went through,
\* with or without the overdraft allowance, the adjust(id, +delta) that
\* follows at once leaves the balance the first call found
C26_RoundTrip ==
    [][\A t \in Tasks :
          (pc[t] = "l_credit" /\ Steps(t))
             => balance'[loc[t].user] = loc[t].cur]_vars

\* b is an integer nearest to bal x 0.05 (either neighbour on a tie)
NearestTwentieth(b, bal) == 20 * b - bal <= 10 /\ bal - 20 * b <= 10

\* C30 as the specification states it: without a bet argument the bet lies in
\* 1..1000, it is 5% of the balance rounded to the nearest integer whenever
\* that lies in 1..1000, 1 when the rounded value is below 1 and 1000 when it
\* is above 1000
C30_AutoBet ==
    \A t \in Tasks :
       (loc[t].op = "resolve" /\ loc[t].arg = 0)
          => /\ loc[t].bet \in 1..1000
             /\ (\E b \in 1..1000 : NearestTwentieth(b, loc[t].ubal))
                   => NearestTwentieth(loc[t].bet, loc[t].ubal)
             /\ loc[t].ubal < 10 => loc[t].bet = 1
             /\ loc[t].ubal > 20010 => loc[t].bet = 1000


\* C21 as the specification states it: a free spin of a cascade that draws a
\* combination that pays on a paid spin has winnings > 0 and goes on to
\* credit them to the player
C21_FreeSpinPays ==
    [][\A t \in Tasks :
          (/\ pc[t] = "s_spin" /\ loc[t].free /\ Steps(t)
           /\ Evaluate(loc[t].machine, loc'[t].syms, 1, 0).winnings > 0)
             => loc'[t].win > 0 /\ pc'[t] = "s_pay"]_vars


\* C25: every jackpot pool that exists holds at least the seed of its machine;
\* a contribution creates an absent pool at max(amount, seed) and adds the
\* amount to one that exists, the write of a peek is the seed, and the award
\* leaves the seed
C25_PoolAtLeastSeed ==
    /\ [](\A m \in JackpotMachines :
             jackpots[m] # Absent => jackpots[m] >= JackpotSeed(m))
    /\ [][\A t \in Tasks :
             LET m == PeekMachine(t)
                 amount == JackpotContribution(loc[t].machine, loc[t].bet)
             IN  /\ (pc[t] = "s_contrib" /\ Steps(t))
                       => jackpots'[loc[t].machine] =
                             IF jackpots[loc[t].machine] = Absent
                             THEN Max(amount, JackpotSeed(loc[t].machine))
                             ELSE jackpots[loc[t].machine] + amount
                 /\ (pc[t] = "peek2" /\ Steps(t)) => jackpots'[m] = JackpotSeed(m)
                 /\ (pc[t] = "s_reset" /\ Steps(t))
                       => jackpots'[loc[t].machine] = JackpotSeed(loc[t].machine)]_vars

C25_Witness ==
    \E t \in Tasks :
       /\ pc[t] = "s_spin" /\ loc[t].machine = "pharaoh" /\ ~loc[t].free
       /\ loc[t].pool0 = Absent
       /\ loc[t].jb = JackpotSeed("pharaoh")
       /\ jackpots["pharaoh"] = JackpotSeed("pharaoh")


C28_DeliveryBounded ==
    /\ [][\A t \in Tasks :
             /\ (pc[t] = "d_try" /\ Steps(t))
                   => /\ loc[t].i < MaxAttempts
                      /\ \/ pc'[t] = "idle" /\ loc'[t].result \in {"Delivered", "Dropped"}
                         \/ pc'[t] = "d_sleep" /\ loc'[t].i = loc[t].i + 1
             /\ (pc[t] = "d_sleep" /\ Steps(t))
                   => IF loc[t].i < MaxAttempts
                      THEN pc'[t] = "d_try" /\ loc'[t].i = loc[t].i
                      ELSE pc'[t] = "idle" /\ loc'[t].result = "Dropped"
             /\ (pc[t] \in {"d_try", "d_sleep"} /\ Steps(t)) => UNCHANGED dbVars]_vars
    /\ \A t \in Tasks : (pc[t] \in {"d_try", "d_sleep"}) ~> (pc[t] = "idle")

\* the third attempt was rate limited as well
C28_Witness ==
    \E t \in Tasks :
       /\ pc[t] = "d_sleep"
       /\ loc[t].op = "help"
       /\ loc[t].i = MaxAttempts

\* the steps of a spin after its bet was deducted
PostDeduct == {"s_clear", "s_contrib", "s_spin", "s_pay", "s_boost", "s_unboost",
               "s_bonus", "s_record", "s_reset"}

Deducted(t) ==
    \/ pc[t] \in PostDeduct
    \/ pc[t] \in {"peek1", "peek2"} /\ loc[t].op = "slots"

\* C27: after the deduction of its bet a spin goes on whether its replies and
\* edits are delivered or not: the spin step always goes on to pay or to
\* record, the pay step adds the winnings to the balance, a paid spin that
\* awarded free spins ends only through its cascade and a cascade only after
\* its last free spin, no step of the spin lowers a balance, none but the
\* award of the jackpot lowers or removes a pool, and every spin whose bet was
\* deducted comes to its end and gives the spin lock back
C27_SpinCompletes ==
    /\ [][\A t \in Tasks :
             (Deducted(t) /\ Steps(t))
                => /\ pc[t] = "s_spin"
                         => /\ pc'[t] = (IF loc'[t].win # 0 THEN "s_pay" ELSE "s_record")
                            /\ loc'[t].syms \in DrawSet(loc[t].machine)
                   /\ pc[t] = "s_pay"
                         => /\ loc[t].win > 0
                            /\ balance'[loc[t].user] = balance[loc[t].user] + loc[t].win
                            /\ pc'[t] = "s_boost"
                   /\ pc'[t] = "idle"
                         => IF loc[t].free THEN loc[t].i = loc[t].fs /\ pc[t] = "s_record"
                            ELSE loc[t].fs = 0
                   /\ (~loc[t].free /\ loc'[t].free)
                         => loc[t].fs > 0 /\ loc'[t].fs = loc[t].fs /\ pc'[t] = "s_spin"
                   /\ \A p \in Players : balance'[p] >= balance[p]
                   /\ \A m \in JackpotMachines :
                         IF pc[t] = "s_reset" /\ m = loc[t].machine
                         THEN jackpots'[m] = JackpotSeed(m)
                         ELSE /\ jackpots[m] # Absent => jackpots'[m] >= jackpots[m]
                              /\ jackpots'[m] = Absent => jackpots[m] = Absent]_vars
    /\ \A t \in Tasks : Deducted(t) ~> (pc[t] = "idle" /\ slotLock # t)

\* the last free spin of a cascade none of whose messages was delivered, after
\* a spin that paid: both bets are gone from the balance and the winnings are
\* in it
C27_Witness ==
    \E t \in Tasks :
       /\ loc[t].transport = "flaky" /\ ~loc[t].msg
       /\ loc[t].free /\ loc[t].i = loc[t].fs
       /\ pc[t] = "s_record"
       /\ balance[loc[t].user] > 5050 - 100 - 100
       /\ jackpots["pharaoh"] # Absent


\* C31: a read of a win boost or of a subscription whose expires_at is not
\* after the clock gives what the read of no effect gives: the spin goes on
\* with no bonus, /stats refuses; only a read that finds a running effect
\* leads to a bonus or to the report; the read of an expired effect is
\* followed by the removal of the record, and a record that is absent stays
\* absent until a /use sets it
C31_ExpiredIsAbsent ==
    [][\A t \in Tasks :
          LET u == loc[t].user
              boost == effects[u]["win_boost"]
              access == effects[u]["analytics_subscription"]
          IN  /\ (pc[t] = "s_boost" /\ Steps(t))
                    => /\ (boost # NoEffect /\ boost.expires_at <= now)
                             => pc'[t] = "s_unboost" /\ loc'[t].bonus = 0
                       /\ pc'[t] = "s_bonus"
                             => boost # NoEffect /\ boost.expires_at > now
                       /\ boost = NoEffect => pc'[t] = "s_record" /\ loc'[t].bonus = 0
              /\ (pc[t] = "s_unboost" /\ Steps(t))
                    => /\ effects'[u]["win_boost"] = NoEffect
                       /\ pc'[t] = "s_record" /\ loc'[t].bonus = 0
                       /\ balance' = balance
              /\ (pc[t] = "st_read" /\ Steps(t))
                    => /\ (access # NoEffect /\ access.expires_at <= now)
                             => pc'[t] = "a_reap"
                       /\ pc'[t] = "st_report"
                             => access # NoEffect /\ access.expires_at > now
                       /\ access = NoEffect
                             => pc'[t] = "idle" /\ loc'[t].result = "NoAccess"
              /\ (pc[t] = "a_reap" /\ Steps(t))
                    => /\ effects'[u]["analytics_subscription"] = NoEffect
                       /\ loc[t].op = "stats"
                             => pc'[t] = "idle" /\ loc'[t].result = "NoAccess"
              /\ (/\ Steps(t)
                  /\ \E p \in Players, e \in {"win_boost", "analytics_subscription"} :
                        effects[p][e] = NoEffect /\ effects'[p][e] # NoEffect)
                    => pc[t] \in {"u_set", "a_set"}]_vars

\* a spin that won has read the expired win boost and /stats the expired
\* subscription; both are about to remove what they read
C31_Witness ==
    \E t1, t2 \in Tasks :
       /\ pc[t1] = "s_unboost" /\ loc[t1].win > 0
       /\ effects[loc[t1].user]["win_boost"] = BoostEffect
       /\ pc[t2] = "a_reap" /\ loc[t2].op = "stats"
       /\ effects[loc[t2].user]["analytics_subscription"] = AccessEffect
       /\ now >= InitTime + EffectLeft


\* C32: every quantity of the inventory is at least 0 and that of an item
\* that does not stack at most 1; a consume_item that finds no unit changes
\* nothing and ends the /use, one that finds a unit takes exactly one; the
\* add_item_to_inventory of a purchase of a stackable item adds exactly one
C32_InventoryBounds ==
    /\ [](\A p \in Players, item \in ItemIds :
             /\ items[p][item] >= 0
             /\ ~Stackable(item) => items[p][item] <= 1)
    /\ [][\A t \in Tasks :
             LET u == loc[t].user
                 item == loc[t].item
             IN  /\ (pc[t] = "u_consume" /\ Steps(t))
                       => IF items[u][item] <= 0
                          THEN /\ UNCHANGED dbVars
                               /\ pc'[t] = "idle"
                               /\ loc'[t].result = "NothingToConsume"
                          ELSE items' = [items EXCEPT ![u][item] = items[u][item] - 1]
                 /\ (pc[t] = "b_add" /\ Steps(t) /\ Stackable(item))
                       => items' = [items EXCEPT ![u][item] = items[u][item] + 1]]_vars

\* of two /use of the only credit line one found nothing to consume, and a
\* purchase added a second win boost to the one held
C32_Witness ==
    /\ \E t \in Tasks : pc[t] = "idle" /\ loc[t].result = "NothingToConsume"
    /\ items["p1"][CreditItemId] = 0
    /\ items["p1"][BoostItemId] = 2
    /\ balance["p1"] = CreditPrice + CreditPrice


\* C35 as the specification states it: the add_item_to_inventory that follows
\* the deduction of the price raises the buyer's quantity of the item by
\* exactly 1, however the /buy requests interleave
C35_DebitMatchedByItem ==
    [][\A t \in Tasks :
          (pc[t] = "b_add" /\ Steps(t))
             => items'[loc[t].user][loc[t].item] = items[loc[t].user][loc[t].item] + 1]_vars


\* C33: every balance is at least -CreditLimit, with or without an active
\* credit line; the deduction of a bet from a balance that is already
\* negative needs a credit line and leaves the balance at or above
\* -CreditLimit, the debt of the earlier credit line included
C33_DebtNeverDeepened ==
    /\ [](\A p \in Players : balance[p] >= -CreditLimit)
    /\ [][\A t \in Tasks :
             LET u == loc[t].user IN
             (pc[t] = "s_deduct" /\ Steps(t) /\ balance[u] < 0)
                => /\ balance'[u] >= -CreditLimit
                   /\ balance'[u] < balance[u]
                         => loc[t].credit /\ balance'[u] = balance[u] - loc[t].bet]_vars

\* the debt of a first credit line (-350) deepened by a bet of 100 on a
\* second one, which the bet consumed
C33_Witness ==
    /\ balance["p1"] = -450
    /\ effects["p1"]["credit_line"] = NoEffect
    /\ items["p1"][CreditItemId] = 0
    /\ \E t \in Tasks : pc[t] = "s_spin" /\ loc[t].user = "p1" /\ loc[t].bet = 100

\* C34 as the specification states it: a /slots request that reads a
\* negative balance ends at the balance gate, before any deduction, whatever
\* effect is stored for the player
C34_NoBetWhileNegative ==
    [][\A t \in Tasks :
          (pc[t] = "s_credit" /\ Steps(t) /\ loc[t].ubal < 0)
             => pc'[t] = "idle"]_vars


\* C36 as the specification states it: a /daily credits the bonus only when
\* no claim of the player was credited less than DailyCooldown ago, be that
\* claim stamped already or credited by a request that has yet to stamp it
C36_DailyOncePerWindow ==
    [][\A t \in Tasks :
          LET u == loc[t].user IN
          (pc[t] = "d_pay" /\ Steps(t) /\ balance'[u] > balance[u])
             => /\ ~CooldownActive(lastDaily[u], now)
                /\ \A t2 \in Tasks \ {t} :
                      ~(/\ pc[t2] = "d_stamp" /\ loc[t2].user = u
                        /\ CooldownActive(loc[t2].stamp, now))]_vars


\* the ways out of a spin request
SpinExits ==
    {"UserNotFound", "NoChips", "NegativeBalance", "InvalidBet", "BetRefused",
     "CreditFailed", "BonusFailed", "Done"}

\* C37: the spin lock is held by a request from its acquisition to its end
\* and by nothing else; whichever way a request ends (player not registered,
\* bet rejected, deduction refused, the credit of the winnings raising, a
\* normal end, the end of a cascade) the lock is free after its last step;
\* and every request that waits for the lock gets it
C37_LockReleased ==
    /\ [](\A t \in Tasks : slotLock = t <=> InSpin(t))
    /\ [][\A t \in Tasks :
             (InSpin(t) /\ pc'[t] = "idle")
                => slotLock' = 0 /\ loc'[t].result \in SpinExits]_vars
    /\ \A t \in Tasks : (pc[t] = "s_lock") ~> (slotLock = t)

\* a request took the lock after the request before it died of the ValueError
\* of its credit
C37_Witness ==
    \E t1, t2 \in Tasks :
       /\ pc[t1] = "idle" /\ loc[t1].result = "CreditFailed"
       /\ pc[t2] = "s_user" /\ slotLock = t2
       /\ balance["p1"] = -51


\* C38 as the specification states it: from the contribution of a spin that
\* wins the jackpot to its reset no step changes the pool of its machine, and
\* the amount the reset replaces with the seed is the pool part of the
\* winnings that were paid
C38_AwardEqualsPool ==
    [][\A t \in Tasks :
          LET m == loc[t].machine IN
          (loc[t].op = "slots" /\ loc[t].jwin > 0 /\ ~loc[t].free)
             => /\ (pc[t] = "s_reset" /\ Steps(t)) => jackpots[m] = loc[t].jwin
                /\ pc[t] \in {"s_pay", "s_boost", "s_unboost", "s_bonus", "s_record"}
                      => jackpots'[m] = jackpots[m]]_vars


\* C39: on a fruit or pirate machine evaluate reports no jackpot win for any
\* triplet, whatever pool total it is given, and jackpot_contribution is 0;
\* no step of a spin on such a machine, its free spins included, changes or
\* creates a pool, reports a jackpot win, or is a contribution, a reset or a
\* reading of a pool
C39_NoJackpotWithoutSupport ==
    [][\A t \in Tasks :
          /\ (/\ loc'[t] # loc[t] /\ loc'[t].op = "evaluate"
              /\ MachineType(loc'[t].machine) \in {"fruit", "pirate"})
                => loc'[t].jb = EvalPool /\ loc'[t].jwin = 0
          /\ (/\ loc'[t] # loc[t] /\ loc'[t].op = "contribution"
              /\ MachineType(loc'[t].machine) \in {"fruit", "pirate"})
                => loc'[t].amount = 0
          /\ (/\ loc[t].op = "slots" /\ Steps(t)
              /\ MachineType(loc[t].machine) \in {"fruit", "pirate"})
                => /\ jackpots' = jackpots
                   /\ loc'[t].jwin = 0
                   /\ pc'[t] \notin {"s_contrib", "s_reset", "peek1", "peek2"}]_vars

\* the last free spin of a pirate cascade, no pool created
C39_Witness ==
    \E t \in Tasks :
       /\ loc[t].op = "slots" /\ loc[t].machine = "pirate"
       /\ loc[t].free /\ loc[t].i = loc[t].fs
       /\ pc[t] = "s_record"
       /\ \A m \in JackpotMachines : jackpots[m] = Absent


=============================================================================
